---- MODULE Spec2Model ----
(***************************************************************************)
(* Cost Manager front end: the IndexedDB access layer (utils/idb.js, the   *)
(* vanilla window.idb library) and the currency service                    *)
(* (services/currencyService.js), as a state machine.                      *)
(*                                                                         *)
(* JavaScript numbers are modelled as exact rationals [n, d] (d > 0, in    *)
(* lowest terms), with NaN = 0/0 and +-Infinity = +-1/0: the model follows *)
(* the arithmetic of the code without the rounding of IEEE doubles.        *)
(* JavaScript strings are sequences of one-character strings, so that      *)
(* toUpperCase, Number(string) and String(number) are computed.            *)
(***************************************************************************)
EXTENDS Integers, Sequences, FiniteSets, TLC

VARIABLES clock, db, localStorage, exchangeUrl, exchangeRates, ac, gr, fx, cc

\* the last application of convertAmount
VARIABLE ca

\* the React application: the selected tab, the state of the five
\* components, and the handlers that are waiting at an await
VARIABLES currentTab, addCostForm, monthlyReport, pieChart, barChart,
          settings, threads

vars == <<clock, db, localStorage, exchangeUrl, exchangeRates, ac, gr, fx, cc>>

(***************************************************************************)
(* Numbers                                                                 *)
(***************************************************************************)
Abs(x) == IF x < 0 THEN -x ELSE x

Sgn(x) == IF x > 0 THEN 1 ELSE IF x < 0 THEN -1 ELSE 0

RECURSIVE GCD(_, _)
GCD(a, b) == IF b = 0 THEN a ELSE GCD(b, a % b)

NaN == [n |-> 0, d |-> 0]

\* the number n/d in lowest terms; d = 0 gives NaN or an infinity
Norm(n, d) ==
    IF d = 0 THEN [n |-> Sgn(n), d |-> 0]
    ELSE LET g == GCD(Abs(n), Abs(d))
         IN  [n |-> (Sgn(d) * n) \div g, d |-> Abs(d) \div g]

Num(i) == [n |-> i, d |-> 1]

Rat(n, d) == Norm(n, d)

\* a + b of JavaScript
NumAdd(a, b) ==
    IF a.d = 0 /\ b.d = 0 THEN (IF a.n = b.n THEN a ELSE NaN)
    ELSE IF a.d = 0 THEN a
    ELSE IF b.d = 0 THEN b
    ELSE Norm(a.n * b.d + b.n * a.d, a.d * b.d)

\* a * b of JavaScript
NumMul(a, b) == Norm(a.n * b.n, a.d * b.d)

\* a / b of JavaScript
NumDiv(a, b) ==
    Norm(a.n * b.d * (IF b.n < 0 THEN -1 ELSE 1), Abs(a.d * b.n))

\* 0 and NaN are the falsy numbers
NumTruthy(a) == a.n /= 0

(***************************************************************************)
(* JavaScript values: undefined, null, numbers, strings, objects           *)
(***************************************************************************)
Undefined == [t |-> "undefined"]

Null == [t |-> "null"]

JNum(x) == [t |-> "number", v |-> x]

JStr(s) == [t |-> "string", v |-> s]

JObj(f) == [t |-> "object", v |-> f]

\* the truthiness test of !x, x && y, x || y
Truthy(x) ==
    CASE x.t = "undefined" -> FALSE
      [] x.t = "null" -> FALSE
      [] x.t = "number" -> NumTruthy(x.v)
      [] x.t = "string" -> x.v /= <<>>
      [] OTHER -> TRUE

\* typeof x === 'object' (true of null as well)
TypeofObject(x) == x.t \in {"object", "null"}

Digits == <<"0", "1", "2", "3", "4", "5", "6", "7", "8", "9">>

IsDigit(c) == \E i \in DOMAIN Digits : Digits[i] = c

DigitVal(c) == (CHOOSE i \in DOMAIN Digits : Digits[i] = c) - 1

RECURSIVE ParseDigits(_)
ParseDigits(s) ==
    IF s = <<>> THEN 0
    ELSE 10 * ParseDigits(SubSeq(s, 1, Len(s) - 1)) + DigitVal(s[Len(s)])

\* Number(x): a number is kept, '' is 0, a string of digits is its decimal
\* value, any other string (and undefined) is NaN, null is 0
NumberOf(x) ==
    CASE x.t = "number" -> x.v
      [] x.t = "string" ->
            IF \A i \in DOMAIN x.v : IsDigit(x.v[i])
            THEN Num(ParseDigits(x.v)) ELSE NaN
      [] x.t = "null" -> Num(0)
      [] OTHER -> NaN

RECURSIVE NatDigits(_)
NatDigits(i) ==
    IF i < 10 THEN <<Digits[i + 1]>>
    ELSE NatDigits(i \div 10) \o <<Digits[(i % 10) + 1]>>

\* String(x): a string is kept, a natural number is its decimal digits
StringOf(x) ==
    CASE x.t = "string" -> x.v
      [] x.t = "number" /\ x.v.d = 1 /\ x.v.n >= 0 -> NatDigits(x.v.n)
      [] x.t = "number" -> <<"N", "a", "N">>
      [] x.t = "null" -> <<"n", "u", "l", "l">>
      [] OTHER -> <<"u", "n", "d", "e", "f", "i", "n", "e", "d">>

LowerLetters ==
    <<"a", "b", "c", "d", "e", "f", "g", "h", "i", "j", "k", "l", "m",
      "n", "o", "p", "q", "r", "s", "t", "u", "v", "w", "x", "y", "z">>

UpperLetters ==
    <<"A", "B", "C", "D", "E", "F", "G", "H", "I", "J", "K", "L", "M",
      "N", "O", "P", "Q", "R", "S", "T", "U", "V", "W", "X", "Y", "Z">>

\* String.prototype.toUpperCase
ToUpperCase(s) ==
    [i \in DOMAIN s |->
        IF \E k \in DOMAIN LowerLetters : LowerLetters[k] = s[i]
        THEN UpperLetters[CHOOSE k \in DOMAIN LowerLetters : LowerLetters[k] = s[i]]
        ELSE s[i]]

(***************************************************************************)
(* Currency service (services/currencyService.js)                          *)
(***************************************************************************)
USD == <<"U", "S", "D">>

GBP == <<"G", "B", "P">>

EURO == <<"E", "U", "R", "O">>

ILS == <<"I", "L", "S">>

DEFAULT_EXCHANGE_URL == "https://api.exchangerate-api.com/v4/latest/USD"

\* the initial value of let exchangeRates
DefaultRates ==
    (USD :> JNum(Num(1))) @@ (GBP :> JNum(Rat(4, 5)))
      @@ (EURO :> JNum(Rat(17, 20))) @@ (ILS :> JNum(Rat(7, 2)))

\* o.k of JavaScript, for an o that is not null or undefined
Prop(o, k) ==
    IF o.t = "object" /\ k \in DOMAIN o.v THEN o.v[k] ELSE Undefined

\* a non-null object: x && typeof x === 'object'
IsObject(x) == Truthy(x) /\ TypeofObject(x)

\* { ...o, USD: 1 }
SpreadWithUSD(o) ==
    JObj([k \in DOMAIN o.v \cup {"USD"} |->
            IF k = "USD" THEN JNum(Num(1)) ELSE o.v[k]])

\* let sourceRates: the rates object of the three response shapes, or null
SourceRates(data) ==
    IF IsObject(data)
    THEN IF IsObject(Prop(data, "rates")) THEN Prop(data, "rates")
         ELSE IF IsObject(Prop(data, "conversion_rates"))
              THEN Prop(data, "conversion_rates")
         ELSE IF Truthy(Prop(data, "conversions"))
                 /\ IsObject(Prop(Prop(data, "conversions"), "USD"))
              THEN SpreadWithUSD(Prop(Prop(data, "conversions"), "USD"))
         ELSE Null
    ELSE Null

\* (sourceRates && (sourceRates.KEY ?? fallback)) || fallback
RateOr(sourceRates, key, fallback) ==
    IF ~Truthy(sourceRates) THEN fallback
    ELSE LET x == Prop(sourceRates, key)
             y == IF x.t \in {"undefined", "null"} THEN fallback ELSE x
         IN  IF Truthy(y) THEN y ELSE fallback

\* ExtractRates reading the euro rate from the key EURO instead of EUR
ExtractRatesEuroKey(data) ==
    LET src == SourceRates(data)
    IN  (USD :> RateOr(src, "USD", JNum(Num(1))))
          @@ (GBP :> RateOr(src, "GBP", JNum(Rat(4, 5))))
          @@ (EURO :> RateOr(src, "EURO", JNum(Rat(17, 20))))
          @@ (ILS :> RateOr(src, "ILS", JNum(Rat(7, 2))))

\* const rates = { USD: ..., GBP: ..., EURO: ..., ILS: ... }
ExtractRates(data) ==
    LET src == SourceRates(data)
    IN  (USD :> RateOr(src, "USD", JNum(Num(1))))
          @@ (GBP :> RateOr(src, "GBP", JNum(Rat(4, 5))))
          @@ (EURO :> RateOr(src, "EUR", JNum(Rat(17, 20))))
          @@ (ILS :> RateOr(src, "ILS", JNum(Rat(7, 2))))

\* A response to fetch(exchangeUrl): the request fails, the status is not OK,
\* the body is no JSON, or the body parses to data.
RespFailed(resp) == resp.kind \in {"network_error", "not_ok", "bad_body"}

\* FetchExchangeRates falling back to the default rates on a failure
FetchExchangeRatesToDefaults(resp, cached) ==
    IF resp.kind \in {"network_error", "not_ok", "bad_body"}
    THEN (USD :> JNum(Num(1))) @@ (GBP :> JNum(Rat(4, 5)))
           @@ (EURO :> JNum(Rat(17, 20))) @@ (ILS :> JNum(Rat(7, 2)))
    ELSE ExtractRates(resp.data)

\* fetchExchangeRates: the value of exchangeRates after the call settles,
\* which is also the value the promise resolves to (it never rejects: every
\* throw is inside the try)
FetchExchangeRates(resp, cached) ==
    IF RespFailed(resp) THEN cached ELSE ExtractRates(resp.data)

\* exchangeRates[currency] as an operand of / and *
RateNum(rates, currency) ==
    IF currency \in DOMAIN rates THEN NumberOf(rates[currency]) ELSE NaN

\* convertAmount that multiplies by the rate of the source currency and
\* divides by the rate of the target currency
convertAmountInverse(amount, fromCurrency, toCurrency, rates) ==
    IF fromCurrency = toCurrency THEN amount
    ELSE NumDiv(NumMul(amount, RateNum(rates, fromCurrency)),
                RateNum(rates, toCurrency))

convertAmount(amount, fromCurrency, toCurrency, rates) ==
    IF fromCurrency = toCurrency THEN amount
    ELSE LET usdAmount == NumDiv(amount, RateNum(rates, fromCurrency))
         IN  NumMul(usdAmount, RateNum(rates, toCurrency))

\* costs.reduce((sum, cost) => sum + cost.sum, 0)
RECURSIVE ReduceSum(_)
ReduceSum(costs) ==
    IF costs = <<>> THEN Num(0)
    ELSE NumAdd(ReduceSum(SubSeq(costs, 1, Len(costs) - 1)), costs[Len(costs)].sum)

\* cost.sum || 0
SumOrZero(x) == IF NumTruthy(x) THEN x ELSE Num(0)

\* ConvertedReport whose costs keep the currency they had
ConvertedReportKeepingCostCurrency(report, targetCurrency, rates) ==
    LET convertedCosts ==
            [i \in DOMAIN report.costs |->
                [report.costs[i] EXCEPT
                    !.sum = convertAmount(SumOrZero(report.costs[i].sum),
                                          report.costs[i].currency,
                                          targetCurrency, rates)]]
    IN  [report EXCEPT
            !.costs = convertedCosts,
            !.total = [currency |-> targetCurrency,
                       total |-> ReduceSum(convertedCosts)]]

\* ConvertedReport that keeps the total of the report it was given
ConvertedReportStaleTotal(report, targetCurrency, rates) ==
    [report EXCEPT
        !.costs = [i \in DOMAIN report.costs |->
                      [report.costs[i] EXCEPT
                          !.sum = convertAmount(SumOrZero(report.costs[i].sum),
                                                report.costs[i].currency,
                                                targetCurrency, rates),
                          !.currency = targetCurrency]],
        !.total = [currency |-> targetCurrency, total |-> report.total.total]]

\* the report convertCurrency resolves to, with the rates in use after its
\* await fetchExchangeRates()
ConvertedReport(report, targetCurrency, rates) ==
    LET convertedCosts ==
            [i \in DOMAIN report.costs |->
                [report.costs[i] EXCEPT
                    !.sum = convertAmount(SumOrZero(report.costs[i].sum),
                                          report.costs[i].currency,
                                          targetCurrency, rates),
                    !.currency = targetCurrency]]
    IN  [report EXCEPT
            !.costs = convertedCosts,
            !.total = [currency |-> targetCurrency,
                       total |-> ReduceSum(convertedCosts)]]

\* InitialExchangeUrl that does not look at localStorage
InitialExchangeUrlDefault(storage, storageOk) == DEFAULT_EXCHANGE_URL

\* module initialisation of let exchangeUrl: the saved URL when
\* localStorage has a non-empty one and can be read, else the default
InitialExchangeUrl(storage, storageOk) ==
    IF storageOk /\ "exchangeUrl" \in DOMAIN storage /\ storage["exchangeUrl"] /= ""
    THEN storage["exchangeUrl"]
    ELSE DEFAULT_EXCHANGE_URL

(***************************************************************************)
(* The clock: new Date() reads the date of the current instant             *)
(***************************************************************************)
\* the instants of the model, as the local-time fields of a Date:
\* getFullYear(), getMonth() (0-based), getDate()
Dates ==
    << [fullYear |-> 2024, monthIndex |-> 11, date |-> 31],
       [fullYear |-> 2025, monthIndex |-> 0, date |-> 1],
       [fullYear |-> 2025, monthIndex |-> 11, date |-> 5] >>

\* the years and months a report is asked for
Years == {2024, 2025}

Months == {1, 12}

\* the currencies a report is asked for
ReportCurrencies == {USD, ILS}

(***************************************************************************)
(* IndexedDB database 'costsdb' (host API) and utils/idb.js                *)
(***************************************************************************)
\* the largest number of records the model stores
MaxCosts == 2

\* the database before it is first opened: it does not exist (version 0)
NoDatabase ==
    [version |-> 0, objectStoreNames |-> {}, indexNames |-> {},
     records |-> <<>>, keyGen |-> 0]

\* OnUpgradeNeeded without the yearMonth index
OnUpgradeNeededNoIndex(d) ==
    IF "costs" \notin d.objectStoreNames
    THEN [d EXCEPT !.objectStoreNames = @ \cup {"costs"},
                   !.indexNames = {"year", "month", "category"},
                   !.records = <<>>,
                   !.keyGen = 0]
    ELSE d

\* request.onupgradeneeded: create the 'costs' store (keyPath id,
\* autoIncrement) and its four indexes if the store does not exist
OnUpgradeNeeded(d) ==
    IF "costs" \notin d.objectStoreNames
    THEN [d EXCEPT !.objectStoreNames = @ \cup {"costs"},
                   !.indexNames = {"year", "month", "yearMonth", "category"},
                   !.records = <<>>,
                   !.keyGen = 0]
    ELSE d

\* indexedDB.open(name, version) that succeeds: a database older than
\* version is upgraded in a versionchange transaction, which commits before
\* onsuccess fires; a database of that version is opened as it is
OpenCostsDB(d, version) ==
    IF d.version < version
    THEN [OnUpgradeNeeded(d) EXCEPT !.version = version]
    ELSE d

\* store.add(costItem) that succeeds: the key generator gives the id
StoreAdd(d, costItem) ==
    LET key == d.keyGen + 1
    IN  [d EXCEPT !.keyGen = key,
                  !.records = Append(@, [id |-> key] @@ costItem)]

\* IndexGetAll reading the 'month' index instead of 'yearMonth'
IndexGetAllByMonth(d, year, month) ==
    SelectSeq(d.records, LAMBDA r : r.month = month)

\* index('yearMonth').getAll([year, month]): the records whose index key
\* equals the queried key, in primary-key order
IndexGetAll(d, year, month) ==
    SelectSeq(d.records, LAMBDA r : <<r.year, r.month>> = <<year, month>>)

\* db.transaction(['costs']) and store.index('yearMonth') throw
\* NotFoundError when the store or the index does not exist
HasCostsStore(d) == "costs" \in d.objectStoreNames

HasYearMonthIndex(d) == HasCostsStore(d) /\ "yearMonth" \in d.indexNames

\* MissingProperties that does not test the sum
MissingPropertiesSumUnchecked(cost) ==
    \/ ~Truthy(cost.currency)
    \/ ~Truthy(cost.category)
    \/ ~Truthy(cost.description)

\* !cost.sum || !cost.currency || !cost.category || !cost.description
MissingProperties(cost) ==
    \/ ~Truthy(cost.sum)
    \/ ~Truthy(cost.currency)
    \/ ~Truthy(cost.category)
    \/ ~Truthy(cost.description)

\* CostItem with the 0-based getMonth() stored as the month
CostItemMonthIndex(cost, instant) ==
    LET now == Dates[instant]
    IN  [sum |-> NumberOf(cost.sum),
         currency |-> StringOf(cost.currency),
         category |-> ToUpperCase(StringOf(cost.category)),
         description |-> StringOf(cost.description),
         year |-> now.fullYear,
         month |-> now.monthIndex,
         day |-> now.date,
         dateAdded |-> instant]

\* const costItem = {...}, with now = Dates[instant]
CostItem(cost, instant) ==
    LET now == Dates[instant]
        year == now.fullYear
        month == now.monthIndex + 1
        day == now.date
    IN  [sum |-> NumberOf(cost.sum),
         currency |-> StringOf(cost.currency),
         category |-> ToUpperCase(StringOf(cost.category)),
         description |-> StringOf(cost.description),
         year |-> year,
         month |-> month,
         day |-> day,
         dateAdded |-> instant]

\* const addedCost = {...}: what addCost resolves to
AddedCost(costItem) ==
    [sum |-> costItem.sum,
     currency |-> costItem.currency,
     category |-> costItem.category,
     description |-> costItem.description,
     Date |-> [day |-> costItem.day]]

\* module getReport: const preparedCosts = costs.map(...)
PreparedCosts(costs) ==
    [i \in DOMAIN costs |->
        [sum |-> SumOrZero(costs[i].sum),
         currency |-> costs[i].currency,
         category |-> costs[i].category,
         description |-> costs[i].description,
         Date |-> [day |-> costs[i].day]]]

\* module getReport: const report = {...}, before the conversion
BaseReport(costs, year, month, currency) ==
    LET preparedCosts == PreparedCosts(costs)
    IN  [year |-> year,
         month |-> month,
         costs |-> preparedCosts,
         total |-> [currency |-> currency, total |-> ReduceSum(preparedCosts)]]

\* window.idb.getReport: const convertedCosts = costs.map(...)
VanillaConvertedCosts(costs, currency) ==
    [i \in DOMAIN costs |->
        [sum |-> costs[i].sum,
         currency |-> currency,
         category |-> costs[i].category,
         description |-> costs[i].description,
         Date |-> [day |-> costs[i].day]]]

\* window.idb.getReport: const report = {...}
VanillaReport(costs, year, month, currency) ==
    LET convertedCosts == VanillaConvertedCosts(costs, currency)
    IN  [year |-> year,
         month |-> month,
         costs |-> convertedCosts,
         total |-> [currency |-> currency, total |-> ReduceSum(convertedCosts)]]

(***************************************************************************)
(* Inputs of the model                                                     *)
(***************************************************************************)
Cost(sum, currency, category, description) ==
    [sum |-> sum, currency |-> currency, category |-> category,
     description |-> description]

\* cost objects that pass the validation of addCost
ValidCosts ==
    { Cost(JNum(Num(5)), JStr(USD), JStr(<<"f", "o">>), JStr(<<"a">>)),
      Cost(JStr(<<"7">>), JStr(ILS), JStr(<<"C">>), JStr(<<"b", "A">>)),
      Cost(JStr(<<"x">>), JStr(ILS), JStr(<<"f", "o">>), JStr(<<"a">>)) }

\* cost objects with a property missing (undefined), null, '' or 0
InvalidCosts ==
    LET ok == Cost(JNum(Num(5)), JStr(USD), JStr(<<"f", "o">>), JStr(<<"a">>))
    IN  {[ok EXCEPT !.sum = v] : v \in {Undefined, Null, JNum(Num(0)), JStr(<<>>)}}
          \cup {[ok EXCEPT !.currency = v] : v \in {Undefined, JStr(<<>>)}}
          \cup {[ok EXCEPT !.category = v] : v \in {Undefined, JStr(<<>>)}}
          \cup {[ok EXCEPT !.description = v] : v \in {Undefined, JStr(<<>>)}}
          \cup {Cost(Undefined, Undefined, Undefined, Undefined)}

CostInputs == ValidCosts \cup InvalidCosts

\* rate tables of responses: one with all four rates, one whose rates are
\* 0, null or missing
FullTable ==
    JObj([k \in {"USD", "GBP", "EUR", "ILS"} |->
            CASE k = "USD" -> JNum(Num(2))
              [] k = "GBP" -> JNum(Rat(1, 2))
              [] k = "EUR" -> JNum(Rat(3, 4))
              [] k = "ILS" -> JNum(Num(4))])

PartialTable ==
    JObj([k \in {"USD", "GBP", "ILS"} |->
            CASE k = "USD" -> JNum(Num(1))
              [] k = "GBP" -> JNum(Num(0))
              [] k = "ILS" -> Null])

Tables == {FullTable, PartialTable}

\* parsed response bodies
Bodies ==
    {Null, JObj(<<>>)}
      \cup {JObj("rates" :> t) : t \in Tables}
      \cup {JObj("conversion_rates" :> t) : t \in Tables}
      \cup {JObj("conversions" :> JObj("USD" :> t)) : t \in Tables}
      \cup {JObj(("rates" :> JStr(<<"x">>)) @@ ("conversion_rates" :> FullTable)),
            JObj(("rates" :> PartialTable) @@ ("conversion_rates" :> FullTable))}

Responses ==
    {[kind |-> k, data |-> Null] : k \in {"network_error", "not_ok", "bad_body"}}
      \cup {[kind |-> "ok", data |-> b] : b \in Bodies}

\* URLs typed into the settings ('' included)
Urls == {"", "https://rates.example/latest"}

(***************************************************************************)
(* State: the library calls. The calls are made one at a time; a new call  *)
(* drops the settled promises of the calls before it.                      *)
(***************************************************************************)
\* addCost: the promise (pc), the last IndexedDB event delivered to it, its
\* argument, now, costItem, the key the add request produced, the value or
\* the error message it settled with
AcIdle ==
    [pc |-> "idle", event |-> "", cost |-> <<>>, now |-> 0, costItem |-> <<>>,
     key |-> 0, value |-> <<>>, error |-> ""]

\* getReport: the promise (pc), the last IndexedDB event delivered to it, the
\* library (module or vanilla), the arguments, const costs, const report,
\* the value or the error message it settled with
GrIdle ==
    [pc |-> "idle", event |-> "", lib |-> "", year |-> 0, month |-> 0,
     currency |-> <<>>, costs |-> <<>>, report |-> <<>>, value |-> <<>>,
     error |-> ""]

\* fetchExchangeRates called on its own: the URL fetched, the response
\* received, the value it resolved to
FxIdle == [pc |-> "idle", url |-> "", resp |-> <<>>, value |-> <<>>]

\* convertCurrency called on its own: its arguments, the value it resolved to
CcIdle ==
    [pc |-> "idle", report |-> <<>>, targetCurrency |-> <<>>, value |-> <<>>]

Settled(op) == op.pc \in {"idle", "resolved", "rejected"}

\* no library call is in flight
MayCall == Settled(ac) /\ Settled(gr) /\ Settled(fx) /\ Settled(cc)

\* the record of the last added cost stays while reports are asked for
KeepResolved(op, idle) == IF op.pc = "resolved" THEN op ELSE idle

\* convertAmount not applied yet
CaIdle == [pc |-> "idle", amount |-> <<>>, fromCurrency |-> <<>>,
           toCurrency |-> <<>>, value |-> <<>>]

\* useState({ open: false, message: '', severity: 'success' })
SnackbarClosed == [open |-> FALSE, message |-> <<>>, severity |-> "success"]

\* AddCostForm: useState of formData, loading, snackbar
AddCostFormInit ==
    [formData |-> [sum |-> <<>>, currency |-> USD, category |-> <<>>,
                   description |-> <<>>],
     loading |-> FALSE,
     snackbar |-> SnackbarClosed]

\* MonthlyReport: useState of formData, report, loading, snackbar
MonthlyReportInit(instant) ==
    [formData |-> [year |-> Dates[instant].fullYear,
                   month |-> Dates[instant].monthIndex + 1,
                   currency |-> USD],
     report |-> Null,
     loading |-> FALSE,
     snackbar |-> SnackbarClosed]

\* PieChart: useState of formData, chartData, loading, snackbar
PieChartInit(instant) ==
    [formData |-> [year |-> Dates[instant].fullYear,
                   month |-> Dates[instant].monthIndex + 1,
                   currency |-> USD],
     chartData |-> <<>>,
     loading |-> FALSE,
     snackbar |-> SnackbarClosed]

\* BarChart: useState of formData, chartData, loading, snackbar
BarChartInit(instant) ==
    [formData |-> [year |-> Dates[instant].fullYear, currency |-> USD],
     chartData |-> <<>>,
     loading |-> FALSE,
     snackbar |-> SnackbarClosed]

\* Settings: useState of exchangeUrl, ratesSnapshot, snackbar
SettingsInit(rates) ==
    [exchangeUrl |-> "", ratesSnapshot |-> rates, snackbar |-> SnackbarClosed]

\* a component that is not rendered has no state
Unmounted == [mounted |-> FALSE]

Init ==
    /\ ca = CaIdle
    /\ currentTab = 0
    /\ addCostForm = AddCostFormInit
    /\ monthlyReport = Unmounted
    /\ pieChart = Unmounted
    /\ barChart = Unmounted
    /\ settings = Unmounted
    /\ threads = <<>>
    /\ clock = 1
    /\ db = NoDatabase
    /\ localStorage = <<>>
    /\ exchangeUrl = InitialExchangeUrl(localStorage, TRUE)
    /\ exchangeRates = DefaultRates
    /\ ac = AcIdle
    /\ gr = GrIdle
    /\ fx = FxIdle
    /\ cc = CcIdle

(***************************************************************************)
(* Actions: the clock, and the page being loaded again                     *)
(***************************************************************************)
Tick ==
    /\ clock < Len(Dates)
    /\ clock' = clock + 1
    /\ UNCHANGED <<db, localStorage, exchangeUrl, exchangeRates, ac, gr, fx, cc>>

\* A new session: the module state is initialised again, the calls of the
\* old page are gone; the database and localStorage are kept. (The page is
\* not left while an add request is being carried out.)
ReloadWith(storageOk) ==
    /\ ac.pc /= "adding"
    /\ exchangeUrl' = InitialExchangeUrl(localStorage, storageOk)
    /\ exchangeRates' = DefaultRates
    /\ ac' = AcIdle
    /\ gr' = GrIdle
    /\ fx' = FxIdle
    /\ cc' = CcIdle
    /\ UNCHANGED <<clock, db, localStorage>>

Reload == \E storageOk \in BOOLEAN : ReloadWith(storageOk)

(***************************************************************************)
(* Actions: addCost                                                        *)
(***************************************************************************)
\* addCost(cost): the promise executor, up to the call of openCostsDB
AddCostCall ==
    \E cost \in CostInputs :
        /\ MayCall
        /\ IF MissingProperties(cost)
           THEN ac' = [AcIdle EXCEPT !.pc = "rejected", !.cost = cost,
                          !.error = "Missing required cost properties"]
           ELSE /\ Len(db.records) < MaxCosts
                /\ ac' = [AcIdle EXCEPT !.pc = "opening", !.cost = cost,
                             !.now = clock,
                             !.costItem = CostItem(cost, clock)]
        /\ gr' = GrIdle
        /\ fx' = FxIdle
        /\ cc' = CcIdle
        /\ UNCHANGED <<clock, db, localStorage, exchangeUrl, exchangeRates>>

\* the open request succeeds: onupgradeneeded when the database is new,
\* onsuccess, then the callback that starts the transaction and the add
\* (a missing store throws, which .catch(reject) turns into a rejection)
AcOpenSuccess ==
    /\ ac.pc = "opening"
    /\ db' = OpenCostsDB(db, 1)
    /\ ac' = IF HasCostsStore(db')
             THEN [ac EXCEPT !.pc = "adding", !.event = "open.success"]
             ELSE [ac EXCEPT !.pc = "rejected", !.event = "open.success",
                             !.error = "NotFoundError"]
    /\ UNCHANGED <<clock, localStorage, exchangeUrl, exchangeRates, gr, fx, cc>>

\* the open request fails: request.onerror, and .catch(reject)
AcOpenError ==
    /\ ac.pc = "opening"
    /\ ac' = [ac EXCEPT !.pc = "rejected", !.event = "open.error",
                        !.error = "Failed to open database"]
    /\ UNCHANGED <<clock, db, localStorage, exchangeUrl, exchangeRates, gr, fx, cc>>

\* the add request succeeds: the record is in the store, request.onsuccess
AcAddSuccess ==
    /\ ac.pc = "adding"
    /\ db' = StoreAdd(db, ac.costItem)
    /\ ac' = [ac EXCEPT !.pc = "resolved", !.event = "add.success",
                        !.key = db'.keyGen,
                        !.value = AddedCost(ac.costItem)]
    /\ UNCHANGED <<clock, localStorage, exchangeUrl, exchangeRates, gr, fx, cc>>

\* the add request fails: request.onerror
AcAddError ==
    /\ ac.pc = "adding"
    /\ ac' = [ac EXCEPT !.pc = "rejected", !.event = "add.error",
                        !.error = "Failed to add cost item"]
    /\ UNCHANGED <<clock, db, localStorage, exchangeUrl, exchangeRates, gr, fx, cc>>

(***************************************************************************)
(* Actions: getReport (utils/idb.js and window.idb)                        *)
(***************************************************************************)
\* getReport(year, month, currency), up to the call of openCostsDB
GetReportCall ==
    \E lib \in {"module", "vanilla"}, year \in Years, month \in Months,
       currency \in ReportCurrencies :
        /\ MayCall
        /\ gr' = [GrIdle EXCEPT !.pc = "opening", !.lib = lib, !.year = year,
                     !.month = month, !.currency = currency]
        /\ ac' = KeepResolved(ac, AcIdle)
        /\ fx' = FxIdle
        /\ cc' = CcIdle
        /\ UNCHANGED <<clock, db, localStorage, exchangeUrl, exchangeRates>>

\* the open request succeeds; the transaction, the index and the getAll
\* request follow (a missing store or index throws, which rejects)
GrOpenSuccess ==
    /\ gr.pc = "opening"
    /\ db' = OpenCostsDB(db, 1)
    /\ gr' = IF HasYearMonthIndex(db')
             THEN [gr EXCEPT !.pc = "reading", !.event = "open.success"]
             ELSE [gr EXCEPT !.pc = "rejected", !.event = "open.success",
                             !.error = "NotFoundError"]
    /\ UNCHANGED <<clock, localStorage, exchangeUrl, exchangeRates, ac, fx, cc>>

\* the open request fails
GrOpenError ==
    /\ gr.pc = "opening"
    /\ gr' = [gr EXCEPT !.pc = "rejected", !.event = "open.error",
                        !.error = "Failed to open database"]
    /\ UNCHANGED <<clock, db, localStorage, exchangeUrl, exchangeRates, ac, fx, cc>>

\* the getAll request succeeds. The module builds the report and calls
\* convertCurrency, which awaits fetchExchangeRates; window.idb builds the
\* report and resolves.
GrGetAllSuccess ==
    /\ gr.pc = "reading"
    /\ LET costs == IndexGetAll(db, gr.year, gr.month)
       IN  gr' = IF gr.lib = "module"
                 THEN [gr EXCEPT !.pc = "fetching", !.event = "getAll.success",
                          !.costs = costs,
                          !.report = BaseReport(costs, gr.year, gr.month, gr.currency)]
                 ELSE [gr EXCEPT !.pc = "resolved", !.event = "getAll.success",
                          !.costs = costs,
                          !.report = VanillaReport(costs, gr.year, gr.month, gr.currency),
                          !.value = VanillaReport(costs, gr.year, gr.month, gr.currency)]
    /\ UNCHANGED <<clock, db, localStorage, exchangeUrl, exchangeRates, ac, fx, cc>>

\* GrGetAllError resolving with an empty report instead of rejecting
GrGetAllErrorResolvesEmpty ==
    /\ gr.pc = "reading"
    /\ gr' = [gr EXCEPT !.pc = "resolved", !.event = "getAll.error",
                        !.report = VanillaReport(<<>>, gr.year, gr.month, gr.currency),
                        !.value = VanillaReport(<<>>, gr.year, gr.month, gr.currency)]
    /\ UNCHANGED <<clock, db, localStorage, exchangeUrl, exchangeRates, ac, fx, cc>>

\* the getAll request fails
GrGetAllError ==
    /\ gr.pc = "reading"
    /\ gr' = [gr EXCEPT !.pc = "rejected", !.event = "getAll.error",
                        !.error = "Failed to get report"]
    /\ UNCHANGED <<clock, db, localStorage, exchangeUrl, exchangeRates, ac, fx, cc>>

\* the fetch of convertCurrency settles: fetchExchangeRates sets the rates,
\* convertCurrency converts the report, getReport resolves
GrFetchSettle ==
    \E resp \in Responses :
        /\ gr.pc = "fetching"
        /\ exchangeRates' = FetchExchangeRates(resp, exchangeRates)
        /\ gr' = [gr EXCEPT !.pc = "resolved",
                     !.value = ConvertedReport(gr.report, gr.currency, exchangeRates')]
        /\ UNCHANGED <<clock, db, localStorage, exchangeUrl, ac, fx, cc>>

(***************************************************************************)
(* Actions: the currency service called on its own                         *)
(***************************************************************************)
\* reports handed to convertCurrency
SampleCost(sum, currency, category, day) ==
    [sum |-> sum, currency |-> currency, category |-> category,
     description |-> <<"a">>, Date |-> [day |-> day]]

SampleReports ==
    LET k1 == SampleCost(Num(5), USD, <<"F", "O">>, 1)
        k2 == SampleCost(Num(7), ILS, <<"C">>, 5)
        k3 == SampleCost(NaN, EURO, <<"F", "O">>, 5)
    IN  {[year |-> 2025, month |-> 1, costs |-> c,
          total |-> [currency |-> USD, total |-> Num(1)]] :
            c \in {<<>>, <<k1>>, <<k2, k1>>, <<k1, k3, k2>>}}

\* fetchExchangeRates(): fetch(exchangeUrl) is sent
FetchCall ==
    /\ MayCall
    /\ fx' = [FxIdle EXCEPT !.pc = "pending", !.url = exchangeUrl]
    /\ ac' = AcIdle
    /\ gr' = GrIdle
    /\ cc' = CcIdle
    /\ UNCHANGED <<clock, db, localStorage, exchangeUrl, exchangeRates>>

\* the fetch settles: the rest of fetchExchangeRates runs
FetchSettle ==
    \E resp \in Responses :
        /\ fx.pc = "pending"
        /\ exchangeRates' = FetchExchangeRates(resp, exchangeRates)
        /\ fx' = [fx EXCEPT !.pc = "resolved", !.resp = resp, !.value = exchangeRates']
        /\ UNCHANGED <<clock, db, localStorage, exchangeUrl, ac, gr, cc>>

\* convertCurrency(report, targetCurrency), up to await fetchExchangeRates()
ConvertCurrencyCall ==
    \E report \in SampleReports, targetCurrency \in {USD, ILS, GBP} :
        /\ MayCall
        /\ cc' = [CcIdle EXCEPT !.pc = "fetching", !.report = report,
                     !.targetCurrency = targetCurrency]
        /\ ac' = AcIdle
        /\ gr' = GrIdle
        /\ fx' = FxIdle
        /\ UNCHANGED <<clock, db, localStorage, exchangeUrl, exchangeRates>>

\* its fetch settles: the rates are set, the report is converted
CcFetchSettle ==
    \E resp \in Responses :
        /\ cc.pc = "fetching"
        /\ exchangeRates' = FetchExchangeRates(resp, exchangeRates)
        /\ cc' = [cc EXCEPT !.pc = "resolved",
                     !.value = ConvertedReport(cc.report, cc.targetCurrency, exchangeRates')]
        /\ UNCHANGED <<clock, db, localStorage, exchangeUrl, ac, gr, fx>>

\* the amounts and currencies convertAmount is applied to
Amounts == {Num(0), Num(7), Rat(5, 2)}

SupportedCurrencies == {USD, GBP, EURO, ILS}

\* convertAmount(amount, fromCurrency, toCurrency) called on its own: it
\* reads the rates in use and returns
ConvertAmountCall ==
    \E amount \in Amounts, fromCurrency \in SupportedCurrencies,
       toCurrency \in SupportedCurrencies :
        /\ MayCall
        /\ ca' = [pc |-> "returned", amount |-> amount,
                  fromCurrency |-> fromCurrency, toCurrency |-> toCurrency,
                  value |-> convertAmount(amount, fromCurrency, toCurrency,
                                          exchangeRates)]
        /\ UNCHANGED <<clock, db, localStorage, exchangeUrl, exchangeRates,
                       ac, gr, fx, cc>>

\* localStorage.setItem('exchangeUrl', url), which may throw
SetItem(storage, url, storageOk) ==
    IF storageOk THEN ("exchangeUrl" :> url) @@ storage ELSE storage

\* setExchangeUrl(url): storage errors are ignored
SetExchangeUrlTo(url, storageOk) ==
    /\ exchangeUrl' = url
    /\ localStorage' = SetItem(localStorage, url, storageOk)
    /\ UNCHANGED <<clock, db, exchangeRates, ac, gr, fx, cc>>

SetExchangeUrl ==
    \E url \in Urls \cup {DEFAULT_EXCHANGE_URL}, storageOk \in BOOLEAN :
        SetExchangeUrlTo(url, storageOk)

(***************************************************************************)
(* The React application: App and its tab panels                           *)
(***************************************************************************)
\* the largest number of handlers waiting at an await at the same time,
\* those of unmounted components included
MaxThreads == 2

\* a handler waiting at an await: the component function it belongs to
\* (kind), whether that component instance is still mounted, the await it
\* waits at (pc) and the constants of its closure
Thread(kind, pc, arg) ==
    [kind |-> kind, mounted |-> TRUE, pc |-> pc, arg |-> arg, month |-> 0,
     report |-> Null, monthlyData |-> <<>>]

\* the handler of an instance that was unmounted runs on; its state updates
\* have no effect, so only what it still does to the database is kept
Orphan(t) ==
    [t EXCEPT !.mounted = FALSE,
              !.arg = IF t.kind = "addCost" THEN t.arg ELSE <<>>,
              !.report = Null,
              !.monthlyData = <<>>]

Orphans(ts) == [i \in DOMAIN ts |-> Orphan(ts[i])]

\* the sequence without its i-th element
Without(ts, i) == SubSeq(ts, 1, i - 1) \o SubSeq(ts, i + 1, Len(ts))

\* TabPanel that keeps the children of a hidden panel rendered
TabPanelHiddenOnly(value, index, children) == children

\* TabPanel: {value === index && <Box>{children}</Box>}
TabPanel(value, index, children) ==
    IF value = index THEN children ELSE Unmounted

\* the children of panel index when value becomes the selected tab: the
\* instance that is rendered already, or a new one
Children(index, current, initial) ==
    IF currentTab = index THEN current ELSE initial

\* Settings mount effect: fetchExchangeRates() is called
MountFetch(value) ==
    IF value = 4 /\ currentTab /= 4
    THEN <<Thread("settingsMount", "fetchExchangeRates", <<>>)>>
    ELSE <<>>

\* handleTabChange(event, newValue): setCurrentTab(newValue), and the render
\* that follows
TabClick ==
    \E newValue \in 0..4 :
        /\ Len(threads) + Len(MountFetch(newValue)) <= MaxThreads
        /\ currentTab' = newValue
        /\ addCostForm' = TabPanel(newValue, 0, Children(0, addCostForm, AddCostFormInit))
        /\ monthlyReport' =
              TabPanel(newValue, 1, Children(1, monthlyReport, MonthlyReportInit(clock)))
        /\ pieChart' = TabPanel(newValue, 2, Children(2, pieChart, PieChartInit(clock)))
        /\ barChart' = TabPanel(newValue, 3, Children(3, barChart, BarChartInit(clock)))
        /\ settings' =
              TabPanel(newValue, 4,
                       Children(4, settings,
                                [SettingsInit(exchangeRates) EXCEPT
                                    !.exchangeUrl = exchangeUrl]))
        /\ threads' = (IF newValue = currentTab THEN threads ELSE Orphans(threads))
                         \o MountFetch(newValue)
        /\ UNCHANGED <<clock, db, localStorage, exchangeUrl, exchangeRates>>

(***************************************************************************)
(* AddCostForm                                                             *)
(***************************************************************************)
CategoryFood == <<"F", "O", "O", "D">>

CategoryOther == <<"O", "T", "H", "E", "R">>

\* the number of digits s starts with
RECURSIVE LeadingDigits(_)
LeadingDigits(s) ==
    IF s = <<>> \/ ~IsDigit(s[1]) THEN 0 ELSE 1 + LeadingDigits(Tail(s))

RECURSIVE Pow10(_)
Pow10(k) == IF k = 0 THEN 1 ELSE 10 * Pow10(k - 1)

\* parseFloat of a string without a sign: the longest prefix digits[.digits]
ParseUnsigned(s) ==
    LET k == LeadingDigits(s)
        rest == SubSeq(s, k + 1, Len(s))
        m == IF rest /= <<>> /\ rest[1] = "." THEN LeadingDigits(Tail(rest)) ELSE 0
    IN  IF k = 0 /\ m = 0 THEN NaN
        ELSE Rat(ParseDigits(SubSeq(s, 1, k)) * Pow10(m)
                   + ParseDigits(SubSeq(rest, 2, m + 1)), Pow10(m))

\* parseFloat(s) of a string s
ParseFloat(s) ==
    IF s /= <<>> /\ s[1] = "-"
    THEN NumMul(Num(-1), ParseUnsigned(Tail(s)))
    ELSE ParseUnsigned(s)

\* s is a decimal number: [-]digits[.digits] or [-].digits
IsDecimal(s) ==
    LET body == IF s /= <<>> /\ s[1] = "-" THEN Tail(s) ELSE s
        k == LeadingDigits(body)
        rest == SubSeq(body, k + 1, Len(body))
    IN  \/ k > 0 /\ rest = <<>>
        \/ /\ rest /= <<>>
           /\ rest[1] = "."
           /\ Len(rest) > 1
           /\ LeadingDigits(Tail(rest)) = Len(rest) - 1

\* isNaN(s) of a string s: Number(s) is NaN; Number('') and Number of blanks
\* are 0
IsNaN(s) ==
    /\ ~IsDecimal(s)
    /\ \E i \in DOMAIN s : s[i] /= " "

\* NumberInputValue of a text input: the text typed, whatever it is
NumberInputValueOfText(text) == text

\* <TextField type="number">: the value of the input is the text typed when
\* it is a number, and '' otherwise
NumberInputValue(text) == IF IsDecimal(text) THEN text ELSE <<>>

\* what is typed into the sum field
SumTexts == {<<>>, <<"0">>, <<"5">>, <<"-", "3">>, <<"x">>, <<" ">>}

\* the category chosen in the form
Categories == {CategoryFood}

Descriptions == {<<>>, <<"a">>}

\* handleInputChange: setFormData(prev => ({ ...prev, [name]: value }))
AddCostFormInput ==
    /\ currentTab = 0
    /\ \/ \E text \in SumTexts :
             addCostForm' = [addCostForm EXCEPT !.formData.sum = NumberInputValue(text)]
       \/ \E value \in ReportCurrencies :
             addCostForm' = [addCostForm EXCEPT !.formData.currency = value]
       \/ \E value \in Categories :
             addCostForm' = [addCostForm EXCEPT !.formData.category = value]
       \/ \E value \in Descriptions :
             addCostForm' = [addCostForm EXCEPT !.formData.description = value]
    /\ UNCHANGED <<clock, db, localStorage, exchangeUrl, exchangeRates, currentTab,
                   monthlyReport, pieChart, barChart, settings, threads>>

ErrorSnackbar(message) == [open |-> TRUE, message |-> message, severity |-> "error"]

SuccessSnackbar(message) ==
    [open |-> TRUE, message |-> message, severity |-> "success"]

\* handleSubmit: the first validation fails
RequiredFieldMissing(formData) ==
    \/ formData.sum = <<>>
    \/ formData.category = <<>>
    \/ formData.description = <<>>

\* x <= 0 (false of NaN)
NumLeqZero(x) == (x.d > 0 /\ x.n <= 0) \/ (x.d = 0 /\ x.n < 0)

\* handleSubmit: the second validation fails
SumNotPositive(formData) ==
    \/ IsNaN(formData.sum)
    \/ NumLeqZero(ParseFloat(formData.sum))

\* const costData = {...}
CostData(formData) ==
    Cost(JNum(ParseFloat(formData.sum)), JStr(formData.currency),
         JStr(formData.category), JStr(formData.description))

\* the addCost calls that have not settled
PendingAdds == Cardinality({i \in DOMAIN threads : threads[i].kind = "addCost"})

\* handleSubmit, up to await addCost(costData); the button is disabled while
\* loading
AddCostFormSubmit ==
    /\ currentTab = 0
    /\ ~addCostForm.loading
    /\ IF RequiredFieldMissing(addCostForm.formData)
       THEN /\ addCostForm' =
                  [addCostForm EXCEPT !.snackbar =
                      ErrorSnackbar(<<"Please fill in all required fields">>)]
            /\ UNCHANGED threads
       ELSE IF SumNotPositive(addCostForm.formData)
       THEN /\ addCostForm' =
                  [addCostForm EXCEPT !.snackbar =
                      ErrorSnackbar(<<"Please enter a valid positive number for the sum">>)]
            /\ UNCHANGED threads
       ELSE /\ Len(threads) < MaxThreads
            /\ Len(db.records) + PendingAdds < MaxCosts
            /\ addCostForm' = [addCostForm EXCEPT !.loading = TRUE]
            /\ threads' = Append(threads,
                  Thread("addCost", "addCost",
                         [cost |-> CostData(addCostForm.formData), now |-> clock]))
    /\ UNCHANGED <<clock, db, localStorage, exchangeUrl, exchangeRates, currentTab,
                   monthlyReport, pieChart, barChart, settings>>

\* how a call of addCost settles: the error message, or '' when it resolves
AddCostOutcomes(cost) ==
    IF MissingProperties(cost)
    THEN {"Missing required cost properties"}
    ELSE {"", "Failed to open database", "Failed to add cost item"}

\* the database after a call of addCost that settled with this outcome
AddCostEffect(d, t, outcome) ==
    CASE outcome = "" -> StoreAdd(OpenCostsDB(d, 1), CostItem(t.arg.cost, t.arg.now))
      [] outcome = "Failed to add cost item" -> OpenCostsDB(d, 1)
      [] OTHER -> d

\* AddCostFormSettled that resets the form whatever the outcome
AddCostFormSettledAlwaysReset(form, outcome) ==
    [form EXCEPT !.snackbar =
                     IF outcome = ""
                     THEN SuccessSnackbar(<<"Cost item added successfully!">>)
                     ELSE ErrorSnackbar(<<"Error adding cost item: ", outcome>>),
                 !.formData = [sum |-> <<>>, currency |-> USD,
                               category |-> <<>>, description |-> <<>>],
                 !.loading = FALSE]

\* handleSubmit after await addCost(costData): then, catch and finally
AddCostFormSettled(form, outcome) ==
    IF outcome = ""
    THEN [form EXCEPT !.snackbar = SuccessSnackbar(<<"Cost item added successfully!">>),
                      !.formData = [sum |-> <<>>, currency |-> USD,
                                    category |-> <<>>, description |-> <<>>],
                      !.loading = FALSE]
    ELSE [form EXCEPT !.snackbar = ErrorSnackbar(<<"Error adding cost item: ", outcome>>),
                      !.loading = FALSE]

\* the promise of addCost settles and handleSubmit runs to its end
AddCostSettle ==
    \E i \in DOMAIN threads :
        /\ threads[i].kind = "addCost"
        /\ \E outcome \in AddCostOutcomes(threads[i].arg.cost) :
              /\ db' = AddCostEffect(db, threads[i], outcome)
              /\ addCostForm' =
                    IF threads[i].mounted
                    THEN AddCostFormSettled(addCostForm, outcome)
                    ELSE addCostForm
        /\ threads' = Without(threads, i)
        /\ UNCHANGED <<clock, localStorage, exchangeUrl, exchangeRates, currentTab,
                       monthlyReport, pieChart, barChart, settings>>

(***************************************************************************)
(* MonthlyReport, PieChart, BarChart: the handlers that call getReport and *)
(* convertCurrency                                                         *)
(***************************************************************************)
\* the responses the rates URL gives while the application is used
AppResponses ==
    {[kind |-> "not_ok", data |-> Null],
     [kind |-> "ok", data |-> JObj("rates" :> FullTable)]}

\* how a call of getReport settles: the error message, or '' when it resolves
GetReportOutcomes == {"", "Failed to open database", "Failed to get report"}

\* await getReport(year, month, currency) of utils/idb.js as one step: the
\* database and the rates after it, and the report it resolves to
GetReportResult(d, rates, outcome, resp, year, month, currency) ==
    LET opened == OpenCostsDB(d, 1)
        latest == FetchExchangeRates(resp, rates)
    IN  CASE outcome = "Failed to open database" ->
                [db |-> d, rates |-> rates, value |-> Null]
          [] outcome = "Failed to get report" ->
                [db |-> opened, rates |-> rates, value |-> Null]
          [] OTHER ->
                [db |-> opened, rates |-> latest,
                 value |-> ConvertedReport(
                              BaseReport(IndexGetAll(opened, year, month),
                                         year, month, currency),
                              currency, latest)]

\* handleInputChange of MonthlyReport
MonthlyReportInput ==
    /\ currentTab = 1
    /\ \/ \E value \in Years :
             monthlyReport' = [monthlyReport EXCEPT !.formData.year = value]
       \/ \E value \in Months :
             monthlyReport' = [monthlyReport EXCEPT !.formData.month = value]
       \/ \E value \in ReportCurrencies :
             monthlyReport' = [monthlyReport EXCEPT !.formData.currency = value]
    /\ UNCHANGED <<clock, db, localStorage, exchangeUrl, exchangeRates, currentTab,
                   addCostForm, pieChart, barChart, settings, threads>>

\* MonthlyReportGenerate with a button that is not disabled while loading
MonthlyReportGenerateWhileLoading ==
    /\ currentTab = 1
    /\ Len(threads) < MaxThreads
    /\ monthlyReport' = [monthlyReport EXCEPT !.loading = TRUE]
    /\ threads' = Append(threads, Thread("report", "getReport", monthlyReport.formData))
    /\ UNCHANGED <<clock, db, localStorage, exchangeUrl, exchangeRates, currentTab,
                   addCostForm, pieChart, barChart, settings>>

\* handleGenerateReport, up to await getReport(...); the button is disabled
\* while loading
MonthlyReportGenerate ==
    /\ currentTab = 1
    /\ ~monthlyReport.loading
    /\ Len(threads) < MaxThreads
    /\ monthlyReport' = [monthlyReport EXCEPT !.loading = TRUE]
    /\ threads' = Append(threads, Thread("report", "getReport", monthlyReport.formData))
    /\ UNCHANGED <<clock, db, localStorage, exchangeUrl, exchangeRates, currentTab,
                   addCostForm, pieChart, barChart, settings>>

\* handleGenerateReport: await getReport(...) settles; catch and finally when
\* it rejects
MonthlyReportGetReportSettle ==
    \E i \in DOMAIN threads, outcome \in GetReportOutcomes, resp \in AppResponses :
        LET t == threads[i]
            r == IF t.mounted
                 THEN GetReportResult(db, exchangeRates, outcome, resp, t.arg.year,
                                      t.arg.month, t.arg.currency)
                 ELSE GetReportResult(db, exchangeRates, outcome, resp, 0, 0, USD)
        IN  /\ t.kind = "report"
            /\ t.pc = "getReport"
            /\ db' = r.db
            /\ exchangeRates' = r.rates
            /\ IF outcome = ""
               THEN /\ threads' =
                          [threads EXCEPT ![i] =
                              [t EXCEPT !.pc = "convertCurrency",
                                        !.report = IF t.mounted THEN r.value ELSE Null]]
                    /\ UNCHANGED monthlyReport
               ELSE /\ threads' = Without(threads, i)
                    /\ monthlyReport' =
                          IF t.mounted
                          THEN [monthlyReport EXCEPT
                                   !.snackbar = ErrorSnackbar(<<"Error generating report: ", outcome>>),
                                   !.loading = FALSE]
                          ELSE monthlyReport
            /\ UNCHANGED <<clock, localStorage, exchangeUrl, currentTab, addCostForm,
                           pieChart, barChart, settings>>

\* handleGenerateReport: await convertCurrency(...) settles; setReport,
\* setSnackbar, finally
MonthlyReportConvertSettle ==
    \E i \in DOMAIN threads, resp \in AppResponses :
        LET t == threads[i]
        IN  /\ t.kind = "report"
            /\ t.pc = "convertCurrency"
            /\ exchangeRates' = FetchExchangeRates(resp, exchangeRates)
            /\ threads' = Without(threads, i)
            /\ monthlyReport' =
                  IF t.mounted
                  THEN [monthlyReport EXCEPT
                           !.report = ConvertedReport(t.report, t.arg.currency, exchangeRates'),
                           !.snackbar = SuccessSnackbar(<<"Report generated successfully!">>),
                           !.loading = FALSE]
                  ELSE monthlyReport
            /\ UNCHANGED <<clock, db, localStorage, exchangeUrl, currentTab, addCostForm,
                           pieChart, barChart, settings>>

\* parseFloat(value.toFixed(2)): the nearest multiple of 0.01, the larger in
\* magnitude of two that are equally near
ToFixed2(x) ==
    IF x.d = 0 THEN x
    ELSE Rat(Sgn(x.n) * ((200 * Abs(x.n) + x.d) \div (2 * x.d)), 100)

\* categoryTotals after costs.forEach(...): the entries in the order their
\* keys were created
RECURSIVE CategoryTotals(_)
CategoryTotals(costs) ==
    IF costs = <<>> THEN <<>>
    ELSE LET prev == CategoryTotals(SubSeq(costs, 1, Len(costs) - 1))
             cost == costs[Len(costs)]
         IN  IF \E k \in DOMAIN prev : prev[k].name = cost.category
             THEN [k \in DOMAIN prev |->
                     IF prev[k].name = cost.category
                     THEN [prev[k] EXCEPT !.value =
                             IF NumTruthy(@) THEN NumAdd(@, cost.sum) ELSE cost.sum]
                     ELSE prev[k]]
             ELSE Append(prev, [name |-> cost.category, value |-> cost.sum])

\* PieData without the rounding to two decimals and without the grouping
PieDataPerCost(costs) ==
    [k \in DOMAIN costs |->
        [name |-> costs[k].category, value |-> ToFixed2(costs[k].sum),
         fill |-> (k - 1) % 8]]

\* const data = Object.entries(categoryTotals).map(...); fill is the index
\* into COLORS
PieData(costs) ==
    LET categoryTotals == CategoryTotals(costs)
    IN  [k \in DOMAIN categoryTotals |->
            [name |-> categoryTotals[k].name,
             value |-> ToFixed2(categoryTotals[k].value),
             fill |-> (k - 1) % 8]]

\* handleInputChange of PieChart
PieChartInput ==
    /\ currentTab = 2
    /\ \/ \E value \in Years :
             pieChart' = [pieChart EXCEPT !.formData.year = value]
       \/ \E value \in Months :
             pieChart' = [pieChart EXCEPT !.formData.month = value]
       \/ \E value \in ReportCurrencies :
             pieChart' = [pieChart EXCEPT !.formData.currency = value]
    /\ UNCHANGED <<clock, db, localStorage, exchangeUrl, exchangeRates, currentTab,
                   addCostForm, monthlyReport, barChart, settings, threads>>

\* PieChart.generateChart, up to await getReport(...)
PieChartGenerate ==
    /\ currentTab = 2
    /\ ~pieChart.loading
    /\ Len(threads) < MaxThreads
    /\ pieChart' = [pieChart EXCEPT !.loading = TRUE]
    /\ threads' = Append(threads, Thread("pie", "getReport", pieChart.formData))
    /\ UNCHANGED <<clock, db, localStorage, exchangeUrl, exchangeRates, currentTab,
                   addCostForm, monthlyReport, barChart, settings>>

\* PieChart.generateChart: await getReport(...) settles
PieChartGetReportSettle ==
    \E i \in DOMAIN threads, outcome \in GetReportOutcomes, resp \in AppResponses :
        LET t == threads[i]
            r == IF t.mounted
                 THEN GetReportResult(db, exchangeRates, outcome, resp, t.arg.year,
                                      t.arg.month, t.arg.currency)
                 ELSE GetReportResult(db, exchangeRates, outcome, resp, 0, 0, USD)
        IN  /\ t.kind = "pie"
            /\ t.pc = "getReport"
            /\ db' = r.db
            /\ exchangeRates' = r.rates
            /\ IF outcome = ""
               THEN /\ threads' =
                          [threads EXCEPT ![i] =
                              [t EXCEPT !.pc = "convertCurrency",
                                        !.report = IF t.mounted THEN r.value ELSE Null]]
                    /\ UNCHANGED pieChart
               ELSE /\ threads' = Without(threads, i)
                    /\ pieChart' =
                          IF t.mounted
                          THEN [pieChart EXCEPT
                                   !.snackbar = ErrorSnackbar(<<"Error generating chart: ", outcome>>),
                                   !.loading = FALSE]
                          ELSE pieChart
            /\ UNCHANGED <<clock, localStorage, exchangeUrl, currentTab, addCostForm,
                           monthlyReport, barChart, settings>>

\* PieChart.generateChart: await convertCurrency(...) settles; the grouping,
\* setChartData, setSnackbar, finally
PieChartConvertSettle ==
    \E i \in DOMAIN threads, resp \in AppResponses :
        LET t == threads[i]
        IN  /\ t.kind = "pie"
            /\ t.pc = "convertCurrency"
            /\ exchangeRates' = FetchExchangeRates(resp, exchangeRates)
            /\ threads' = Without(threads, i)
            /\ pieChart' =
                  IF t.mounted
                  THEN [pieChart EXCEPT
                           !.chartData =
                               PieData(ConvertedReport(t.report, t.arg.currency,
                                                       exchangeRates').costs),
                           !.snackbar = SuccessSnackbar(<<"Chart generated successfully!">>),
                           !.loading = FALSE]
                  ELSE pieChart
            /\ UNCHANGED <<clock, db, localStorage, exchangeUrl, currentTab, addCostForm,
                           monthlyReport, barChart, settings>>

\* BarChart: const months = [...], the labels
MonthLabels ==
    <<"Jan", "Feb", "Mar", "Apr", "May", "Jun", "Jul", "Aug", "Sep", "Oct",
      "Nov", "Dec">>

\* handleInputChange of BarChart
BarChartInput ==
    /\ currentTab = 3
    /\ \/ \E value \in Years :
             barChart' = [barChart EXCEPT !.formData.year = value]
       \/ \E value \in ReportCurrencies :
             barChart' = [barChart EXCEPT !.formData.currency = value]
    /\ UNCHANGED <<clock, db, localStorage, exchangeUrl, exchangeRates, currentTab,
                   addCostForm, monthlyReport, pieChart, settings, threads>>

\* BarChart.generateChart, up to the first await getReport(...)
BarChartGenerate ==
    /\ currentTab = 3
    /\ ~barChart.loading
    /\ Len(threads) < MaxThreads
    /\ barChart' = [barChart EXCEPT !.loading = TRUE]
    /\ threads' = Append(threads,
          [Thread("bar", "getReport", barChart.formData) EXCEPT !.month = 1])
    /\ UNCHANGED <<clock, db, localStorage, exchangeUrl, exchangeRates, currentTab,
                   addCostForm, monthlyReport, pieChart, settings>>

\* BarChartPushed that leaves out the months whose total is 0
BarChartPushedSkippingZero(t, i, entry) ==
    LET monthlyData == IF t.mounted /\ entry.total /= Num(0)
                       THEN Append(t.monthlyData, entry) ELSE t.monthlyData
    IN  IF t.month < 12
        THEN /\ threads' =
                   [threads EXCEPT ![i] =
                       [t EXCEPT !.pc = "getReport", !.month = t.month + 1,
                                 !.report = Null, !.monthlyData = monthlyData]]
             /\ UNCHANGED barChart
        ELSE /\ threads' = Without(threads, i)
             /\ barChart' =
                   IF t.mounted
                   THEN [barChart EXCEPT
                            !.chartData = monthlyData,
                            !.snackbar = SuccessSnackbar(<<"Chart generated successfully!">>),
                            !.loading = FALSE]
                   ELSE barChart

\* BarChart.generateChart after monthlyData.push(entry) for the month of t:
\* the next turn of the loop, or the end of the handler
BarChartPushed(t, i, entry) ==
    LET monthlyData == IF t.mounted THEN Append(t.monthlyData, entry) ELSE <<>>
    IN  IF t.month < 12
        THEN /\ threads' =
                   [threads EXCEPT ![i] =
                       [t EXCEPT !.pc = "getReport", !.month = t.month + 1,
                                 !.report = Null, !.monthlyData = monthlyData]]
             /\ UNCHANGED barChart
        ELSE /\ threads' = Without(threads, i)
             /\ barChart' =
                   IF t.mounted
                   THEN [barChart EXCEPT
                            !.chartData = monthlyData,
                            !.snackbar = SuccessSnackbar(<<"Chart generated successfully!">>),
                            !.loading = FALSE]
                   ELSE barChart

\* BarChart.generateChart: await getReport(...) of a month settles; the inner
\* catch pushes a total of 0
BarChartGetReportSettle ==
    \E i \in DOMAIN threads, outcome \in GetReportOutcomes, resp \in AppResponses :
        LET t == threads[i]
            r == IF t.mounted
                 THEN GetReportResult(db, exchangeRates, outcome, resp, t.arg.year,
                                      t.month, t.arg.currency)
                 ELSE GetReportResult(db, exchangeRates, outcome, resp, 0, 0, USD)
        IN  /\ t.kind = "bar"
            /\ t.pc = "getReport"
            /\ db' = r.db
            /\ exchangeRates' = r.rates
            /\ IF outcome = ""
               THEN /\ threads' =
                          [threads EXCEPT ![i] =
                              [t EXCEPT !.pc = "convertCurrency",
                                        !.report = IF t.mounted THEN r.value ELSE Null]]
                    /\ UNCHANGED barChart
               ELSE BarChartPushed(t, i, [month |-> MonthLabels[t.month], total |-> Num(0)])
            /\ UNCHANGED <<clock, localStorage, exchangeUrl, currentTab, addCostForm,
                           monthlyReport, pieChart, settings>>

\* BarChart.generateChart: await convertCurrency(...) of a month settles
BarChartConvertSettle ==
    \E i \in DOMAIN threads, resp \in AppResponses :
        LET t == threads[i]
            total == IF t.mounted
                     THEN ConvertedReport(t.report, t.arg.currency,
                                          exchangeRates').total.total
                     ELSE Num(0)
        IN  /\ t.kind = "bar"
            /\ t.pc = "convertCurrency"
            /\ exchangeRates' = FetchExchangeRates(resp, exchangeRates)
            /\ BarChartPushed(t, i, [month |-> MonthLabels[t.month], total |-> total])
            /\ UNCHANGED <<clock, db, localStorage, exchangeUrl, currentTab, addCostForm,
                           monthlyReport, pieChart, settings>>

\* what BarChart renders below its controls: the chart when
\* chartData.length > 0, the message 'No data available for the selected
\* year...' when chartData.length === 0 && !loading, else nothing
BarChartView(component) ==
    IF Len(component.chartData) > 0 THEN "chart"
    ELSE IF ~component.loading THEN "No data available for the selected year"
    ELSE "nothing"

(***************************************************************************)
(* Settings: the rates shown, and the snackbars                            *)
(***************************************************************************)
\* the mount effect: await fetchExchangeRates() settles, setRatesSnapshot
SettingsMountFetchSettle ==
    \E i \in DOMAIN threads, resp \in AppResponses :
        LET t == threads[i]
        IN  /\ t.kind = "settingsMount"
            /\ exchangeRates' = FetchExchangeRates(resp, exchangeRates)
            /\ threads' = Without(threads, i)
            /\ settings' =
                  IF t.mounted
                  THEN [settings EXCEPT !.ratesSnapshot = exchangeRates']
                  ELSE settings
            /\ UNCHANGED <<clock, db, localStorage, exchangeUrl, currentTab, addCostForm,
                           monthlyReport, pieChart, barChart>>

\* handleUrlChange: the text of the URL input
SettingsUrlChange ==
    /\ currentTab = 4
    /\ \E value \in Urls : settings' = [settings EXCEPT !.exchangeUrl = value]
    /\ UNCHANGED <<clock, db, localStorage, exchangeUrl, exchangeRates, currentTab,
                   addCostForm, monthlyReport, pieChart, barChart, threads>>

\* handleSaveSettings: setExchangeUrl(exchangeUrl), fetchExchangeRates() up
\* to its fetch of the new URL, setSnackbar; the button is disabled while
\* the input is empty
SettingsSave ==
    \E storageOk \in BOOLEAN :
        /\ currentTab = 4
        /\ settings.exchangeUrl /= ""
        /\ Len(threads) < MaxThreads
        /\ exchangeUrl' = settings.exchangeUrl
        /\ localStorage' = SetItem(localStorage, settings.exchangeUrl, storageOk)
        /\ threads' = Append(threads,
              Thread("settingsSave", "fetchExchangeRates", [url |-> exchangeUrl']))
        /\ settings' =
              [settings EXCEPT
                  !.snackbar = SuccessSnackbar(<<"Settings saved successfully!">>)]
        /\ UNCHANGED <<clock, db, exchangeRates, currentTab, addCostForm,
                       monthlyReport, pieChart, barChart>>

\* SettingsSaveFetchSettle without .then(setRatesSnapshot)
SettingsSaveFetchSettleIgnored ==
    \E i \in DOMAIN threads, resp \in AppResponses :
        /\ threads[i].kind = "settingsSave"
        /\ exchangeRates' = FetchExchangeRates(resp, exchangeRates)
        /\ threads' = Without(threads, i)
        /\ UNCHANGED <<clock, db, localStorage, exchangeUrl, currentTab, addCostForm,
                       monthlyReport, pieChart, barChart, settings>>

\* handleSaveSettings: fetchExchangeRates() settles, then(setRatesSnapshot)
SettingsSaveFetchSettle ==
    \E i \in DOMAIN threads, resp \in AppResponses :
        LET t == threads[i]
        IN  /\ t.kind = "settingsSave"
            /\ exchangeRates' = FetchExchangeRates(resp, exchangeRates)
            /\ threads' = Without(threads, i)
            /\ settings' =
                  IF t.mounted
                  THEN [settings EXCEPT !.ratesSnapshot = exchangeRates']
                  ELSE settings
            /\ UNCHANGED <<clock, db, localStorage, exchangeUrl, currentTab, addCostForm,
                           monthlyReport, pieChart, barChart>>

\* the responses a tested URL gives: those of the rates URL, and OK
\* responses whose JSON body is a number or a string
TestResponses ==
    {[kind |-> k, data |-> Null] : k \in {"network_error", "not_ok", "bad_body"}}
      \cup {[kind |-> "ok", data |-> b] :
               b \in {Null, JObj(<<>>), JObj("rates" :> FullTable), JNum(Num(1)),
                      JStr(<<"x">>)}}

\* handleTestConnection, up to await fetch(exchangeUrl), the text of the
\* input; the button is disabled while the input is empty
SettingsTestConnection ==
    /\ currentTab = 4
    /\ settings.exchangeUrl /= ""
    /\ Len(threads) < MaxThreads
    /\ threads' = Append(threads,
          Thread("settingsTest", "fetch", [url |-> settings.exchangeUrl]))
    /\ UNCHANGED <<clock, db, localStorage, exchangeUrl, exchangeRates, currentTab,
                   addCostForm, monthlyReport, pieChart, barChart, settings>>

\* TestConnectionResult that accepts every OK response whose body parses
TestConnectionResultAnyJson(resp) ==
    CASE resp.kind = "network_error" ->
            ErrorSnackbar(<<"Connection test failed: ", "network_error">>)
      [] resp.kind = "not_ok" ->
            ErrorSnackbar(<<"Connection test failed: ", "Failed to connect to the URL">>)
      [] resp.kind = "bad_body" ->
            ErrorSnackbar(<<"Connection test failed: ", "bad_body">>)
      [] OTHER -> SuccessSnackbar(<<"Connection test successful!">>)

\* handleTestConnection: the snackbar it sets for a response.  The message
\* of an error that fetch or response.json() throws is the browser's; the
\* kind of the response stands for it
TestConnectionResult(resp) ==
    CASE resp.kind = "network_error" ->
            ErrorSnackbar(<<"Connection test failed: ", "network_error">>)
      [] resp.kind = "not_ok" ->
            ErrorSnackbar(<<"Connection test failed: ", "Failed to connect to the URL">>)
      [] resp.kind = "bad_body" ->
            ErrorSnackbar(<<"Connection test failed: ", "bad_body">>)
      [] TypeofObject(resp.data) /\ resp.data /= Null ->
            SuccessSnackbar(<<"Connection test successful!">>)
      [] OTHER ->
            ErrorSnackbar(<<"Connection test failed: ", "Invalid response format">>)

\* handleTestConnection: await fetch(exchangeUrl) settles; a request that
\* failed or a status that is not OK ends in the catch
SettingsTestFetchSettle ==
    \E i \in DOMAIN threads, resp \in TestResponses :
        LET t == threads[i]
        IN  /\ t.kind = "settingsTest"
            /\ t.pc = "fetch"
            /\ IF resp.kind \in {"network_error", "not_ok"}
               THEN /\ threads' = Without(threads, i)
                    /\ settings' =
                          IF t.mounted
                          THEN [settings EXCEPT !.snackbar = TestConnectionResult(resp)]
                          ELSE settings
               ELSE /\ threads' =
                          [threads EXCEPT ![i] =
                              [t EXCEPT !.pc = "json",
                                        !.arg = IF t.mounted
                                                THEN [url |-> t.arg.url, response |-> resp]
                                                ELSE t.arg]]
                    /\ UNCHANGED settings
            /\ UNCHANGED <<clock, db, localStorage, exchangeUrl, exchangeRates,
                           currentTab, addCostForm, monthlyReport, pieChart, barChart>>

\* handleTestConnection: await response.json() settles
SettingsTestJsonSettle ==
    \E i \in DOMAIN threads :
        LET t == threads[i]
        IN  /\ t.kind = "settingsTest"
            /\ t.pc = "json"
            /\ threads' = Without(threads, i)
            /\ settings' =
                  IF t.mounted
                  THEN [settings EXCEPT !.snackbar = TestConnectionResult(t.arg.response)]
                  ELSE settings
            /\ UNCHANGED <<clock, db, localStorage, exchangeUrl, exchangeRates,
                           currentTab, addCostForm, monthlyReport, pieChart, barChart>>

\* handleCloseSnackbar of the component that is rendered
CloseSnackbar ==
    /\ CASE currentTab = 0 ->
              /\ addCostForm.snackbar.open
              /\ addCostForm' = [addCostForm EXCEPT !.snackbar.open = FALSE]
              /\ UNCHANGED <<monthlyReport, pieChart, barChart, settings>>
         [] currentTab = 1 ->
              /\ monthlyReport.snackbar.open
              /\ monthlyReport' = [monthlyReport EXCEPT !.snackbar.open = FALSE]
              /\ UNCHANGED <<addCostForm, pieChart, barChart, settings>>
         [] currentTab = 2 ->
              /\ pieChart.snackbar.open
              /\ pieChart' = [pieChart EXCEPT !.snackbar.open = FALSE]
              /\ UNCHANGED <<addCostForm, monthlyReport, barChart, settings>>
         [] currentTab = 3 ->
              /\ barChart.snackbar.open
              /\ barChart' = [barChart EXCEPT !.snackbar.open = FALSE]
              /\ UNCHANGED <<addCostForm, monthlyReport, pieChart, settings>>
         [] OTHER ->
              /\ settings.snackbar.open
              /\ settings' = [settings EXCEPT !.snackbar.open = FALSE]
              /\ UNCHANGED <<addCostForm, monthlyReport, pieChart, barChart>>
    /\ UNCHANGED <<clock, db, localStorage, exchangeUrl, exchangeRates, currentTab,
                   threads>>

(***************************************************************************)
(* Specifications                                                          *)
(***************************************************************************)
\* the application is not used
NoApp ==
    UNCHANGED <<currentTab, addCostForm, monthlyReport, pieChart, barChart,
                settings, threads>>

\* the storage layer and the conversion of its reports
Next ==
    \/ Tick /\ NoApp /\ UNCHANGED ca
    \/ Reload /\ NoApp /\ UNCHANGED ca
    \/ AddCostCall /\ NoApp /\ UNCHANGED ca
    \/ AcOpenSuccess /\ NoApp /\ UNCHANGED ca
    \/ AcOpenError /\ NoApp /\ UNCHANGED ca
    \/ AcAddSuccess /\ NoApp /\ UNCHANGED ca
    \/ AcAddError /\ NoApp /\ UNCHANGED ca
    \/ GetReportCall /\ NoApp /\ UNCHANGED ca
    \/ GrOpenSuccess /\ NoApp /\ UNCHANGED ca
    \/ GrOpenError /\ NoApp /\ UNCHANGED ca
    \/ GrGetAllSuccess /\ NoApp /\ UNCHANGED ca
    \/ GrGetAllError /\ NoApp /\ UNCHANGED ca
    \/ GrFetchSettle /\ NoApp /\ UNCHANGED ca
    \/ FetchCall /\ NoApp /\ UNCHANGED ca
    \/ FetchSettle /\ NoApp /\ UNCHANGED ca
    \/ ConvertCurrencyCall /\ NoApp /\ UNCHANGED ca
    \/ CcFetchSettle /\ NoApp /\ UNCHANGED ca

Spec == Init /\ [][Next]_vars

\* the currency service with its configured URL
NextService ==
    \/ Reload /\ NoApp /\ UNCHANGED ca
    \/ FetchCall /\ NoApp /\ UNCHANGED ca
    \/ FetchSettle /\ NoApp /\ UNCHANGED ca
    \/ ConvertCurrencyCall /\ NoApp /\ UNCHANGED ca
    \/ CcFetchSettle /\ NoApp /\ UNCHANGED ca
    \/ SetExchangeUrl /\ NoApp /\ UNCHANGED ca

SpecService == Init /\ [][NextService]_vars

\* convertAmount applied between fetches of the rates
NextConvertAmount ==
    \/ FetchCall /\ NoApp /\ UNCHANGED ca
    \/ FetchSettle /\ NoApp /\ UNCHANGED ca
    \/ ConvertAmountCall /\ NoApp

SpecConvertAmount == Init /\ [][NextConvertAmount]_<<vars, ca>>

\* the library is used through the application only
NoCalls == UNCHANGED <<ac, gr, fx, cc, ca>>

appVars ==
    <<clock, db, localStorage, exchangeUrl, exchangeRates, currentTab,
      addCostForm, monthlyReport, pieChart, barChart, settings, threads>>

\* the application while costs are added: the tabs, the Add Cost form and
\* the mount effect of Settings
NextApp ==
    \/ TabClick /\ NoCalls
    \/ AddCostFormInput /\ NoCalls
    \/ AddCostFormSubmit /\ NoCalls
    \/ AddCostSettle /\ NoCalls
    \/ SettingsMountFetchSettle /\ NoCalls
    \/ CloseSnackbar /\ NoCalls

SpecApp == Init /\ [][NextApp]_<<vars, ca, appVars>>

\* the application with a cost typed into the Add Cost form
InitFilled ==
    /\ ca = CaIdle
    /\ currentTab = 0
    /\ addCostForm =
          [AddCostFormInit EXCEPT
              !.formData = [sum |-> <<"5">>, currency |-> ILS,
                            category |-> CategoryFood, description |-> <<"a">>]]
    /\ monthlyReport = Unmounted
    /\ pieChart = Unmounted
    /\ barChart = Unmounted
    /\ settings = Unmounted
    /\ threads = <<>>
    /\ clock = 1
    /\ db = NoDatabase
    /\ localStorage = <<>>
    /\ exchangeUrl = InitialExchangeUrl(localStorage, TRUE)
    /\ exchangeRates = DefaultRates
    /\ ac = AcIdle
    /\ gr = GrIdle
    /\ fx = FxIdle
    /\ cc = CcIdle

\* the operations of the four components that have a loading flag: started
\* by a click, settled by IndexedDB and the rates URL
NextLoading ==
    \/ TabClick /\ NoCalls
    \/ AddCostFormSubmit /\ NoCalls
    \/ AddCostSettle /\ NoCalls
    \/ MonthlyReportGenerate /\ NoCalls
    \/ MonthlyReportGetReportSettle /\ NoCalls
    \/ MonthlyReportConvertSettle /\ NoCalls
    \/ PieChartGenerate /\ NoCalls
    \/ PieChartGetReportSettle /\ NoCalls
    \/ PieChartConvertSettle /\ NoCalls
    \/ BarChartGenerate /\ NoCalls
    \/ BarChartGetReportSettle /\ NoCalls
    \/ BarChartConvertSettle /\ NoCalls
    \/ SettingsMountFetchSettle /\ NoCalls

\* a handler waits at an await: one of the settle actions is enabled
AwaitPending == threads /= <<>>

\* the step of a settle action (AddCostSettle, the GetReportSettle and
\* ConvertSettle actions of the report and the charts,
\* SettingsMountFetchSettle), recognised by what it does: a waiting handler
\* moves on or ends, none starts and no tab is clicked
AwaitSettles ==
    /\ threads' /= threads
    /\ Len(threads') <= Len(threads)
    /\ currentTab' = currentTab

\* IndexedDB requests and fetches complete: while a handler waits at an
\* await, one of the awaits settles.  This is weak fairness of the settle
\* actions, WF_v(A) written out as []<>~ENABLED <<A>>_v \/ []<><<A>>_v with
\* AwaitPending for the ENABLED.
SpecLoading ==
    /\ InitFilled
    /\ [][NextLoading]_<<vars, ca, appVars>>
    /\ \/ []<>(~AwaitPending)
       \/ []<><<AwaitSettles>>_<<vars, ca, appVars>>

\* a record of the store as addCost wrote it at the given instant
StoredCost(sum, currency, category, instant) ==
    CostItem(Cost(JNum(sum), JStr(currency), JStr(category), JStr(<<"a">>)), instant)

\* the databases the charts are generated from: none, one with a cost in
\* January and one in December 2025, and one with three costs of two
\* categories and two currencies in December 2024
SampleDatabases ==
    LET opened == OpenCostsDB(NoDatabase, 1)
        k1 == StoredCost(Num(1), ILS, CategoryFood, 1)
        k2 == StoredCost(Num(7), ILS, CategoryOther, 1)
        k3 == StoredCost(Num(5), USD, CategoryFood, 1)
        k4 == StoredCost(Num(5), USD, CategoryFood, 2)
        k5 == StoredCost(Num(7), ILS, CategoryOther, 3)
    IN  {NoDatabase,
         StoreAdd(StoreAdd(opened, k4), k5),
         StoreAdd(StoreAdd(StoreAdd(opened, k1), k2), k3)}

\* the application opened on a database that earlier visits have filled,
\* after the click on the Pie Chart or the Bar Chart tab
InitCharts ==
    /\ ca = CaIdle
    /\ currentTab \in {2, 3}
    /\ addCostForm = Unmounted
    /\ monthlyReport = Unmounted
    /\ pieChart = TabPanel(currentTab, 2, PieChartInit(1))
    /\ barChart = TabPanel(currentTab, 3, BarChartInit(1))
    /\ settings = Unmounted
    /\ threads = <<>>
    /\ clock = 1
    /\ db \in SampleDatabases
    /\ localStorage = <<>>
    /\ exchangeUrl = InitialExchangeUrl(localStorage, TRUE)
    /\ exchangeRates = DefaultRates
    /\ ac = AcIdle
    /\ gr = GrIdle
    /\ fx = FxIdle
    /\ cc = CcIdle

\* the chart that is rendered: the selections, the generation and its awaits
NextCharts ==
    \/ PieChartInput /\ NoCalls
    \/ PieChartGenerate /\ NoCalls
    \/ PieChartGetReportSettle /\ NoCalls
    \/ PieChartConvertSettle /\ NoCalls
    \/ BarChartInput /\ NoCalls
    \/ BarChartGenerate /\ NoCalls
    \/ BarChartGetReportSettle /\ NoCalls
    \/ BarChartConvertSettle /\ NoCalls
    \/ CloseSnackbar /\ NoCalls

SpecCharts == InitCharts /\ [][NextCharts]_<<vars, ca, appVars>>

\* the Settings screen: the URL input, Save Settings, Test Connection, and
\* the tabs
NextSettings ==
    \/ TabClick /\ NoCalls
    \/ SettingsMountFetchSettle /\ NoCalls
    \/ SettingsUrlChange /\ NoCalls
    \/ SettingsSave /\ NoCalls
    \/ SettingsSaveFetchSettle /\ NoCalls
    \/ SettingsTestConnection /\ NoCalls
    \/ SettingsTestFetchSettle /\ NoCalls
    \/ SettingsTestJsonSettle /\ NoCalls
    \/ CloseSnackbar /\ NoCalls

SpecSettings == Init /\ [][NextSettings]_<<vars, ca, appVars>>

(***************************************************************************)
(* Properties                                                              *)
(***************************************************************************)
\* u is s with every lower-case letter replaced by its capital
IsUpperCaseOf(u, s) ==
    /\ Len(u) = Len(s)
    /\ \A i \in DOMAIN s :
          IF \E k \in DOMAIN LowerLetters : s[i] = LowerLetters[k]
          THEN \E k \in DOMAIN LowerLetters :
                  s[i] = LowerLetters[k] /\ u[i] = UpperLetters[k]
          ELSE u[i] = s[i]

\* the positions of the stored records of a year and month
StoredIn(year, month) ==
    {k \in DOMAIN db.records :
        db.records[k].year = year /\ db.records[k].month = month}

\* C1: once addCost has resolved, the record it stored carries the year, the
\* month and the day of the date at which addCost was called; a report asked
\* for afterwards lists the cost (sum a number, category in capitals, the same
\* description, Date.day that day) if it is the report of that year and
\* month, and does not list it otherwise.
C1_AddedCostIsInTheReportOfItsDate ==
    ac.pc = "resolved" =>
        LET called == Dates[ac.now]
            stored == {k \in DOMAIN db.records : db.records[k].id = ac.key}
            listed == {i \in DOMAIN gr.costs : gr.costs[i].id = ac.key}
        IN  /\ Cardinality(stored) = 1
            /\ \A k \in stored :
                  /\ db.records[k].year = called.fullYear
                  /\ db.records[k].month = called.monthIndex + 1
                  /\ db.records[k].day = called.date
            /\ gr.pc = "resolved" =>
                  IF gr.year = called.fullYear /\ gr.month = called.monthIndex + 1
                  THEN /\ Cardinality(listed) = 1
                       /\ \A i \in listed :
                             /\ gr.value.costs[i].sum \in [n : Int, d : Nat]
                             /\ IsUpperCaseOf(gr.value.costs[i].category,
                                              ac.cost.category.v)
                             /\ gr.value.costs[i].description = ac.cost.description.v
                             /\ gr.value.costs[i].Date.day = called.date
                  ELSE listed = {}

\* C1 witness: a cost given with a string sum and a lower-case category has
\* been added and the report of its month lists it
C1_Witness ==
    /\ ac.pc = "resolved"
    /\ gr.pc = "resolved"
    /\ ac.cost.sum.t = "string"
    /\ \E i \in DOMAIN gr.costs :
          /\ gr.costs[i].id = ac.key
          /\ gr.value.costs[i].category /= ac.cost.category.v
    /\ clock > ac.now

\* C2: the costs of a report are exactly the stored records of the requested
\* year and month: a one-to-one correspondence between the listed costs and
\* those records, each listed cost carrying the fields of its record.
C2_ReportListsExactlyTheMonth ==
    gr.pc = "resolved" =>
        LET matching == StoredIn(gr.year, gr.month)
            listed == DOMAIN gr.value.costs
        IN  \E f \in [listed -> matching] :
                /\ \A i, j \in listed : f[i] = f[j] => i = j
                /\ \A k \in matching : \E i \in listed : f[i] = k
                /\ \A i \in listed :
                      /\ gr.costs[i].id = db.records[f[i]].id
                      /\ gr.value.costs[i].category = db.records[f[i]].category
                      /\ gr.value.costs[i].description = db.records[f[i]].description
                      /\ gr.value.costs[i].Date.day = db.records[f[i]].day

\* C2 witness: a report that lists one of two stored records, the other being
\* of the same month of another year
C2_Witness ==
    /\ gr.pc = "resolved"
    /\ Len(gr.value.costs) = 1
    /\ Len(db.records) = 2
    /\ \E k \in DOMAIN db.records :
          db.records[k].month = gr.month /\ db.records[k].year /= gr.year

\* the sum of a stored record converted through the base currency
ConvertedSum(sum, from, to) ==
    IF from = to THEN sum
    ELSE NumMul(NumDiv(sum, NumberOf(exchangeRates[from])), NumberOf(exchangeRates[to]))

\* C3: every cost of a report, of the module and of window.idb, has the
\* requested currency and the stored sum converted from the currency it was
\* stored in to the requested one at the rates in use (for stored sums that
\* are numbers).
C3_ReportIsInRequestedCurrency ==
    gr.pc = "resolved" =>
        \A i \in DOMAIN gr.value.costs :
            gr.costs[i].sum.d /= 0 =>
                /\ gr.value.costs[i].currency = gr.currency
                /\ gr.value.costs[i].sum =
                      ConvertedSum(gr.costs[i].sum, gr.costs[i].currency, gr.currency)

\* C3, for the module alone
C3_ModuleReportIsInRequestedCurrency ==
    (gr.pc = "resolved" /\ gr.lib = "module") =>
        \A i \in DOMAIN gr.value.costs :
            gr.costs[i].sum.d /= 0 =>
                /\ gr.value.costs[i].currency = gr.currency
                /\ gr.value.costs[i].sum =
                      ConvertedSum(gr.costs[i].sum, gr.costs[i].currency, gr.currency)

RECURSIVE SumOfSums(_)
SumOfSums(costs) ==
    IF costs = <<>> THEN Num(0)
    ELSE NumAdd(Head(costs).sum, SumOfSums(Tail(costs)))

\* C4: in a report of getReport or convertCurrency, total.total is the sum of
\* the sums of the listed costs, total.currency is the requested currency,
\* and a month without costs gives no costs and the total 0.
C4_TotalIsTheSumOfTheCosts ==
    /\ gr.pc = "resolved" =>
          /\ gr.value.total.total = SumOfSums(gr.value.costs)
          /\ gr.value.total.currency = gr.currency
          /\ StoredIn(gr.year, gr.month) = {} =>
                gr.value.costs = <<>> /\ gr.value.total.total = Num(0)
    /\ cc.pc = "resolved" =>
          /\ cc.value.total.total = SumOfSums(cc.value.costs)
          /\ cc.value.total.currency = cc.targetCurrency
          /\ cc.report.costs = <<>> =>
                cc.value.costs = <<>> /\ cc.value.total.total = Num(0)

\* C4 witness: a converted report of two costs whose total differs from the
\* total before the conversion
C4_Witness ==
    /\ gr.pc = "resolved"
    /\ gr.lib = "module"
    /\ Len(gr.value.costs) = 2
    /\ gr.value.total.total /= gr.report.total.total

\* C5: fetchExchangeRates never rejects; when the request fails (network
\* error, status not OK, body not JSON) it resolves to the cached rates and
\* leaves them as they were; convertCurrency and a getReport whose read
\* succeeded then resolve.
C5_FailedFetchKeepsTheCachedRates ==
    [][ /\ (fx.pc = "pending" /\ fx'.pc /= "idle") => fx'.pc \in {"pending", "resolved"}
        /\ (fx.pc = "pending" /\ fx'.pc = "resolved"
              /\ fx'.resp.kind \in {"network_error", "not_ok", "bad_body"})
             => (fx'.value = exchangeRates /\ exchangeRates' = exchangeRates)
        /\ (cc.pc = "fetching" /\ cc'.pc /= "idle") => cc'.pc \in {"fetching", "resolved"}
        /\ (gr.pc = "fetching" /\ gr'.pc /= "idle") => gr'.pc \in {"fetching", "resolved"}
      ]_vars

\* C5 witness: a fetch that failed resolved to cached rates that are not the
\* initial ones
C5_Witness ==
    /\ fx.pc = "resolved"
    /\ fx.resp.kind = "not_ok"
    /\ fx.value = exchangeRates
    /\ exchangeRates /= DefaultRates

\* the rates object of a response body: the first of rates, conversion_rates
\* and conversions.USD that is a non-null object
ShapeOf(data) ==
    IF data.t /= "object" THEN "none"
    ELSE IF "rates" \in DOMAIN data.v /\ data.v["rates"].t = "object" THEN "rates"
    ELSE IF "conversion_rates" \in DOMAIN data.v
            /\ data.v["conversion_rates"].t = "object" THEN "conversion_rates"
    ELSE IF "conversions" \in DOMAIN data.v
            /\ data.v["conversions"].t = "object"
            /\ "USD" \in DOMAIN data.v["conversions"].v
            /\ data.v["conversions"].v["USD"].t = "object" THEN "conversions"
    ELSE "none"

TableOf(data) ==
    IF ShapeOf(data) = "conversions" THEN data.v["conversions"].v["USD"].v
    ELSE data.v[ShapeOf(data)].v

\* the currencies in use with the key of their rate in a response
RateKeys == {<<USD, "USD">>, <<GBP, "GBP">>, <<EURO, "EUR">>, <<ILS, "ILS">>}

\* C6: for an OK response of one of the three shapes, fetchExchangeRates sets
\* the rates of USD, GBP, EURO and ILS to the values the response gives for
\* USD, GBP, EUR and ILS, and returns them.
C6_ResponseRatesAreUsed ==
    (fx.pc = "resolved" /\ fx.resp.kind = "ok" /\ ShapeOf(fx.resp.data) /= "none") =>
        /\ fx.value = exchangeRates
        /\ \A ck \in RateKeys :
              /\ ck[2] \in DOMAIN TableOf(fx.resp.data)
              /\ exchangeRates[ck[1]] = TableOf(fx.resp.data)[ck[2]]

\* the default rates, spelled out
FallbackRate(key) ==
    CASE key = "USD" -> JNum(Num(1))
      [] key = "GBP" -> JNum(Rat(4, 5))
      [] key = "EUR" -> JNum(Rat(17, 20))
      [] key = "ILS" -> JNum(Rat(7, 2))

\* C6 as amended: a rate the response gives as a number other than 0 is taken
\* over; a rate that is missing, null or 0 is replaced by the default rate
\* (1, 0.8, 0.85, 3.5); in the conversions shape the rate of USD is 1.
C6_ResponseRatesAreUsedWithFallbacks ==
    (fx.pc = "resolved" /\ fx.resp.kind = "ok" /\ ShapeOf(fx.resp.data) /= "none") =>
        /\ fx.value = exchangeRates
        /\ \A ck \in RateKeys :
              LET table == TableOf(fx.resp.data)
                  given == ck[2] \in DOMAIN table
                            /\ table[ck[2]].t = "number"
                            /\ table[ck[2]].v.n /= 0
              IN  exchangeRates[ck[1]] =
                    IF ShapeOf(fx.resp.data) = "conversions" /\ ck[2] = "USD"
                    THEN JNum(Num(1))
                    ELSE IF given THEN table[ck[2]] ELSE FallbackRate(ck[2])

\* C6 witness: a response of the conversions shape has set the rate of ILS
C6_Witness ==
    /\ fx.pc = "resolved"
    /\ fx.resp.kind = "ok"
    /\ ShapeOf(fx.resp.data) = "conversions"
    /\ exchangeRates[ILS] = JNum(Num(4))
    /\ exchangeRates[EURO] = JNum(Rat(3, 4))

\* C7: after setExchangeUrl(u), getExchangeUrl() returns u and the
\* localStorage key exchangeUrl holds u; a session that starts with a saved
\* URL present uses the saved URL.
C7_UrlIsSavedToLocalStorage ==
    [][ /\ \A url \in Urls \cup {DEFAULT_EXCHANGE_URL} :
              (\E storageOk \in BOOLEAN : SetExchangeUrlTo(url, storageOk)) =>
                  /\ exchangeUrl' = url
                  /\ "exchangeUrl" \in DOMAIN localStorage'
                  /\ localStorage'["exchangeUrl"] = url
        /\ ((\E storageOk \in BOOLEAN : ReloadWith(storageOk))
              /\ "exchangeUrl" \in DOMAIN localStorage)
             => exchangeUrl' = localStorage["exchangeUrl"]
      ]_vars

\* C7 as amended: after setExchangeUrl(u), getExchangeUrl() returns u, and the
\* localStorage key holds u unless the write throws, in which case the
\* storage is left as it was; a session that starts with a saved URL that
\* can be read and is not empty uses it, any other session the default URL.
C7_UrlIsSavedWhenStorageWorks ==
    [][ /\ \A url \in Urls \cup {DEFAULT_EXCHANGE_URL}, storageOk \in BOOLEAN :
              SetExchangeUrlTo(url, storageOk) =>
                  /\ exchangeUrl' = url
                  /\ IF storageOk
                     THEN /\ "exchangeUrl" \in DOMAIN localStorage'
                          /\ localStorage'["exchangeUrl"] = url
                     ELSE localStorage' = localStorage
        /\ \A storageOk \in BOOLEAN :
              ReloadWith(storageOk) =>
                  exchangeUrl' =
                    IF storageOk /\ "exchangeUrl" \in DOMAIN localStorage
                         /\ localStorage["exchangeUrl"] /= ""
                    THEN localStorage["exchangeUrl"]
                    ELSE "https://api.exchangerate-api.com/v4/latest/USD"
      ]_vars

\* C7 witness: a URL other than the default is saved and a fetch is sent to it
C7_Witness ==
    /\ "exchangeUrl" \in DOMAIN localStorage
    /\ localStorage["exchangeUrl"] = "https://rates.example/latest"
    /\ exchangeUrl = localStorage["exchangeUrl"]
    /\ fx.pc = "pending"
    /\ fx.url = exchangeUrl

\* undefined, null, '', 0 and NaN
FalsyValue(v) ==
    \/ v.t \in {"undefined", "null"}
    \/ v.t = "string" /\ v.v = <<>>
    \/ v.t = "number" /\ v.v.n = 0

\* C8: addCost with sum, currency, category or description missing or falsy
\* (0 included) rejects with 'Missing required cost properties', without
\* opening the database and without writing a record.
C8_MissingPropertiesAreRejected ==
    /\ (ac.pc /= "idle"
          /\ \/ FalsyValue(ac.cost.sum)
             \/ FalsyValue(ac.cost.currency)
             \/ FalsyValue(ac.cost.category)
             \/ FalsyValue(ac.cost.description))
         => /\ ac.pc = "rejected"
            /\ ac.error = "Missing required cost properties"
            /\ ac.event = ""
    /\ \A k \in DOMAIN db.records :
          /\ db.records[k].sum /= Num(0)
          /\ db.records[k].currency /= <<>>
          /\ db.records[k].category /= <<>>
          /\ db.records[k].description /= <<>>

\* C8 witness: a cost with sum 0 was rejected and the database was never
\* opened
C8_Witness ==
    /\ ac.pc = "rejected"
    /\ ac.cost.sum.t = "number"
    /\ ac.cost.sum.v = Num(0)
    /\ db.version = 0

\* C9: a failed open request rejects addCost and getReport with 'Failed to
\* open database', a failed add request rejects addCost with 'Failed to add
\* cost item', a failed index read rejects getReport with 'Failed to get
\* report': the promise is neither resolved nor left pending.
C9_StorageFailuresReject ==
    /\ ac.event = "open.error" =>
          ac.pc = "rejected" /\ ac.error = "Failed to open database"
    /\ gr.event = "open.error" =>
          gr.pc = "rejected" /\ gr.error = "Failed to open database"
    /\ ac.event = "add.error" =>
          ac.pc = "rejected" /\ ac.error = "Failed to add cost item"
    /\ gr.event = "getAll.error" =>
          gr.pc = "rejected" /\ gr.error = "Failed to get report"

\* C9 witness: the index read failed on a database that holds a record
C9_Witness ==
    /\ gr.event = "getAll.error"
    /\ gr.pc = "rejected"
    /\ Len(db.records) > 0

\* C10: no step removes or alters a stored record (sessions included); an
\* open request leaves the records and, when the costs store exists, the
\* whole database as they are; after a successful open the costs store and
\* its yearMonth index exist.
C10_OpeningKeepsTheRecords ==
    [][ /\ \A k \in DOMAIN db.records :
              k \in DOMAIN db'.records /\ db'.records[k] = db.records[k]
        /\ ((ac.pc = "opening" /\ ac'.pc /= "opening")
              \/ (gr.pc = "opening" /\ gr'.pc /= "opening"))
             => /\ db'.records = db.records
                /\ "costs" \in db.objectStoreNames => db' = db
        /\ (ac'.event = "open.success" \/ gr'.event = "open.success")
             => /\ "costs" \in db'.objectStoreNames
                /\ "yearMonth" \in db'.indexNames
      ]_vars

\* C10 witness: the database is opened once more in a later session with two
\* records in it
C10_Witness ==
    /\ Len(db.records) = 2
    /\ gr.pc = "reading"
    /\ ac.pc = "idle"

\* the state of the component in the tab panel with this index
Panel(index) ==
    CASE index = 0 -> addCostForm
      [] index = 1 -> monthlyReport
      [] index = 2 -> pieChart
      [] index = 3 -> barChart
      [] index = 4 -> settings

\* C11: currentTab starts at 0 and stays within 0..4 whatever tabs are
\* clicked, and at every moment exactly one of the five panels has its
\* content rendered: the one whose index is currentTab.
C11_ExactlyTheSelectedPanelIsRendered ==
    /\ currentTab = 0
    /\ [](/\ currentTab \in 0..4
          /\ \A index \in 0..4 : (Panel(index) /= Unmounted) <=> (index = currentTab)
          /\ Cardinality({index \in 0..4 : Panel(index) /= Unmounted}) = 1)

\* C11 witness: after tab clicks the Settings panel is the one rendered
C11_Witness ==
    /\ currentTab = 4
    /\ settings /= Unmounted
    /\ addCostForm = Unmounted
    /\ barChart = Unmounted

\* the sum entered is a number greater than 0
IsPositiveNumber(sum) == IsDecimal(sum) /\ ParseFloat(sum).n > 0

\* C12: submitting the Add Cost form with an empty sum, category or
\* description, or with a sum that is not a number or not greater than 0,
\* shows an error notification and does nothing else: addCost is not called,
\* the store is unchanged, loading stays false, the fields keep their values.
C12_InvalidFormIsRejectedWithoutEffect ==
    [][ (/\ AddCostFormSubmit
         /\ \/ addCostForm.formData.sum = <<>>
            \/ addCostForm.formData.category = <<>>
            \/ addCostForm.formData.description = <<>>
            \/ ~IsPositiveNumber(addCostForm.formData.sum))
        => /\ addCostForm'.snackbar.open
           /\ addCostForm'.snackbar.severity = "error"
           /\ threads' = threads
           /\ db' = db
           /\ addCostForm'.loading = FALSE
           /\ addCostForm'.formData = addCostForm.formData
      ]_<<vars, ca, appVars>>

\* C12 witness: a form with sum 0 was submitted: the error is shown, nothing
\* is stored, no call is waiting, the fields are as entered
C12_Witness ==
    /\ currentTab = 0
    /\ addCostForm.formData =
          [sum |-> <<"0">>, currency |-> ILS, category |-> CategoryFood,
           description |-> <<"a">>]
    /\ addCostForm.snackbar =
          ErrorSnackbar(<<"Please enter a valid positive number for the sum">>)
    /\ ~addCostForm.loading
    /\ threads = <<>>
    /\ db = NoDatabase

\* C13: when the addCost of the rendered form resolves (its record is
\* written), the form has its initial values again and a success
\* notification is shown; when it rejects, an error notification with the
\* error message is shown and the values entered are left as they are.
C13_FormIsResetOnSuccessOnly ==
    [][ \A i \in DOMAIN threads :
          (/\ threads[i].kind = "addCost"
           /\ threads[i].mounted
           /\ threads' = Without(threads, i))
          => IF Len(db'.records) = Len(db.records) + 1
             THEN /\ addCostForm'.formData.sum = <<>>
                  /\ addCostForm'.formData.currency = USD
                  /\ addCostForm'.formData.category = <<>>
                  /\ addCostForm'.formData.description = <<>>
                  /\ addCostForm'.snackbar.open
                  /\ addCostForm'.snackbar.severity = "success"
             ELSE /\ db'.records = db.records
                  /\ addCostForm'.formData = addCostForm.formData
                  /\ addCostForm'.snackbar.open
                  /\ addCostForm'.snackbar.severity = "error"
                  /\ \E m \in {"Missing required cost properties",
                               "Failed to open database", "Failed to add cost item"} :
                        addCostForm'.snackbar.message = <<"Error adding cost item: ", m>>
      ]_<<vars, ca, appVars>>

\* C13 witness: after a cost was stored, a second addCost was rejected and
\* the form still shows what was entered
C13_Witness ==
    /\ currentTab = 0
    /\ Len(db.records) = 1
    /\ threads = <<>>
    /\ ~addCostForm.loading
    /\ addCostForm.snackbar =
          ErrorSnackbar(<<"Error adding cost item: ", "Failed to add cost item">>)
    /\ addCostForm.formData =
          [sum |-> <<"5">>, currency |-> ILS, category |-> CategoryFood,
           description |-> <<"a">>]

\* the loading flag of a component that is rendered
Loading(component) == component /= Unmounted /\ component.loading

\* the handlers of this kind that wait at an await and belong to the
\* component instance that is rendered
InFlight(kind) ==
    Cardinality({i \in DOMAIN threads : threads[i].kind = kind /\ threads[i].mounted})

\* the component functions with a loading flag and their state
LoadingComponents ==
    {<<"addCost", 0>>, <<"report", 1>>, <<"pie", 2>>, <<"bar", 3>>}

\* C14: in AddCostForm, MonthlyReport, PieChart and BarChart loading is true
\* from the start of an operation until it settles, after which it is false
\* again, whether the operation succeeded or failed, and every operation
\* settles; one component instance never has two operations in flight.
C14_LoadingFollowsTheOperation ==
    /\ [](\A c \in LoadingComponents :
            /\ InFlight(c[1]) <= 1
            /\ Loading(Panel(c[2])) <=> (InFlight(c[1]) = 1))
    /\ (\E c \in LoadingComponents : Loading(Panel(c[2])))
          ~> (\A c \in LoadingComponents : ~Loading(Panel(c[2])))

\* C14 witness: the bar chart is loading, at its seventh month, while the
\* addCost of the form that was left is still waiting
C14_Witness ==
    /\ Loading(barChart)
    /\ \E i \in DOMAIN threads :
          threads[i].kind = "bar" /\ threads[i].mounted /\ threads[i].month = 7
    /\ \E i \in DOMAIN threads : threads[i].kind = "addCost" /\ ~threads[i].mounted

\* the rate of a currency as a number
RateOf(rates, currency) == NumberOf(rates[currency])

\* the total of the costs stored for a month of a year, each converted to
\* the currency with the rates
MonthTotal(d, year, month, currency, rates) ==
    LET costs == SelectSeq(d.records, LAMBDA r : r.year = year /\ r.month = month)
        converted(c) ==
            IF c.currency = currency THEN c.sum
            ELSE NumMul(NumDiv(c.sum, RateOf(rates, c.currency)), RateOf(rates, currency))
        total[k \in 0..Len(costs)] ==
            IF k = 0 THEN Num(0) ELSE NumAdd(total[k - 1], converted(costs[k]))
    IN  total[Len(costs)]

\* the labels of the first k months
MonthsUpTo(k) ==
    SubSeq(<<"Jan", "Feb", "Mar", "Apr", "May", "Jun", "Jul", "Aug", "Sep", "Oct",
             "Nov", "Dec">>, 1, k)

\* the month labels of chart entries, in their order
LabelsOf(entries) == [k \in DOMAIN entries |-> entries[k].month]

\* the generation of the rendered bar chart has pushed this entry for its
\* month m: the entries so far grow by it, and after December they become
\* the chart data, with the success notification and loading false
BarEntryPushed(t, m, total) ==
    LET entries == Append(t.monthlyData, [month |-> MonthsUpTo(12)[m], total |-> total])
    IN  IF m < 12
        THEN /\ threads' /= <<>>
             /\ threads'[1].monthlyData = entries
             /\ threads'[1].month = m + 1
             /\ threads'[1].pc = "getReport"
             /\ barChart' = barChart
        ELSE /\ threads' = <<>>
             /\ barChart'.chartData = entries
             /\ barChart'.snackbar =
                   [open |-> TRUE, message |-> <<"Chart generated successfully!">>,
                    severity |-> "success"]
             /\ ~barChart'.loading

\* C15: a bar-chart generation retrieves the months one after another, from
\* January to December; the entry of a month is the total of the month's
\* costs of the selected year converted to the selected currency, or 0 when
\* the retrieval of the month failed (and so 0 for a month without costs);
\* the chart data of a completed generation are exactly the 12 entries Jan
\* to Dec, and the generation ends with the success notification and loading
\* false, also when every month failed.
C15_BarChartHasTwelveMonthlyTotals ==
    /\ [](/\ \A i \in DOMAIN threads :
                threads[i].kind = "bar" /\ threads[i].mounted =>
                    /\ threads[i].month \in 1..12
                    /\ LabelsOf(threads[i].monthlyData) = MonthsUpTo(threads[i].month - 1)
          /\ barChart /= Unmounted /\ barChart.chartData /= <<>> =>
                LabelsOf(barChart.chartData) = MonthsUpTo(12))
    /\ [][threads /= <<>> /\ threads[1].kind = "bar" /\ threads' /= threads =>
            LET t == threads[1]
                year == t.arg.year
                currency == t.arg.currency
            IN  IF t.pc = "getReport"
                THEN \/ /\ threads' /= <<>>
                        /\ threads'[1].pc = "convertCurrency"
                        /\ threads'[1].month = t.month
                        /\ threads'[1].monthlyData = t.monthlyData
                        /\ threads'[1].report.total.total =
                              MonthTotal(db', year, t.month, currency, exchangeRates')
                        /\ barChart' = barChart
                     \/ BarEntryPushed(t, t.month, Num(0))
                ELSE BarEntryPushed(t, t.month, t.report.total.total)
        ]_<<vars, ca, appVars>>

\* a chart of 2025 is complete: January has the total of its cost, and
\* December, whose retrieval failed, has 0 although a cost is stored for it
C15_Witness ==
    /\ barChart /= Unmounted
    /\ ~barChart.loading
    /\ barChart.formData.year = 2025
    /\ Len(barChart.chartData) = 12
    /\ barChart.chartData[1].total = Num(5)
    /\ barChart.chartData[12].total = Num(0)
    /\ \E k \in DOMAIN db.records : db.records[k].year = 2025 /\ db.records[k].month = 12
    /\ barChart.snackbar.open /\ barChart.snackbar.severity = "success"

\* C16: whenever the database has no cost item of the selected year and no
\* generation is in progress, the Bar Chart view shows 'No data available
\* for the selected year' and no chart, also after a chart was generated
\* for that year.
C16_NoDataMessageForYearWithoutCosts ==
    /\ barChart /= Unmounted
    /\ ~barChart.loading
    /\ ~\E k \in DOMAIN db.records : db.records[k].year = barChart.formData.year
    => BarChartView(barChart) = "No data available for the selected year"

\* the sum of the sums of the costs of a category
CategorySum(costs, category) ==
    LET total[k \in 0..Len(costs)] ==
            IF k = 0 THEN Num(0)
            ELSE IF costs[k].category = category
                 THEN NumAdd(total[k - 1], costs[k].sum) ELSE total[k - 1]
    IN  total[Len(costs)]

\* the costs stored for a month, each with its category and its sum
\* converted to the currency with the rates
MonthCosts(d, year, month, currency, rates) ==
    LET costs == SelectSeq(d.records, LAMBDA r : r.year = year /\ r.month = month)
    IN  [k \in DOMAIN costs |->
            [category |-> costs[k].category,
             sum |-> IF costs[k].currency = currency THEN costs[k].sum
                     ELSE NumMul(NumDiv(costs[k].sum, RateOf(rates, costs[k].currency)),
                                 RateOf(rates, currency))]]

\* v is x rounded to two decimals: a multiple of 0.01 nearest to x
IsRoundedTo2(v, x) ==
    /\ v.d /= 0 /\ x.d /= 0
    /\ 100 % v.d = 0
    /\ 200 * Abs(v.n * x.d - x.n * v.d) <= v.d * x.d

\* a step of a pie-chart generation, with the relation a completed chart
\* entry has to the sum of its category: the report retrieved lists the
\* month's costs converted; the chart data of a completed generation have
\* one entry for each category of the report, none twice, with that value;
\* a failed generation leaves the chart data and shows the error
PieChartGenerationStep(ValueIs(_, _)) ==
       threads /= <<>> /\ threads[1].kind = "pie" /\ threads' /= threads =>
          LET t == threads[1]
          IN  IF t.pc = "getReport"
              THEN \/ /\ threads' /= <<>>
                      /\ threads'[1].pc = "convertCurrency"
                      /\ [k \in DOMAIN threads'[1].report.costs |->
                            [category |-> threads'[1].report.costs[k].category,
                             sum |-> threads'[1].report.costs[k].sum]]
                           = MonthCosts(db', t.arg.year, t.arg.month, t.arg.currency,
                                        exchangeRates')
                      /\ pieChart' = pieChart
                   \/ /\ threads' = <<>>
                      /\ pieChart'.chartData = pieChart.chartData
                      /\ pieChart'.snackbar.open
                      /\ pieChart'.snackbar.severity = "error"
                      /\ pieChart'.snackbar.message[1] = "Error generating chart: "
                      /\ ~pieChart'.loading
              ELSE LET costs == t.report.costs
                       data == pieChart'.chartData
                   IN  /\ threads' = <<>>
                       /\ {data[k].name : k \in DOMAIN data}
                             = {costs[k].category : k \in DOMAIN costs}
                       /\ \A j, k \in DOMAIN data : data[j].name = data[k].name => j = k
                       /\ \A k \in DOMAIN data :
                             ValueIs(data[k].value, CategorySum(costs, data[k].name))
                       /\ pieChart'.snackbar.severity = "success"
                       /\ ~pieChart'.loading

\* C17 as stated: a completed pie-chart generation yields one entry for each
\* distinct category of the month's costs, none missing and none twice,
\* whose value is the sum of the converted sums of the category; a failed
\* generation leaves the chart data unchanged and shows an error
\* notification.
C17_PieEntryIsCategorySum ==
    [][PieChartGenerationStep(LAMBDA v, x : v = x)]_<<vars, ca, appVars>>

\* C17, amended: as stated, but the value of an entry is the sum of the
\* converted sums of its category rounded to two decimals
\* (parseFloat(value.toFixed(2))).
C17_PieEntryIsRoundedCategorySum ==
    [][PieChartGenerationStep(IsRoundedTo2)]_<<vars, ca, appVars>>

\* a chart of December 2024 in USD with the default rates: FOOD is
\* 1 / 3.5 + 5 = 5.2857..., shown as 5.29, and OTHER is 7 / 3.5 = 2
C17_Witness ==
    /\ pieChart /= Unmounted
    /\ ~pieChart.loading
    /\ Len(pieChart.chartData) = 2
    /\ pieChart.chartData[1].name = <<"F", "O", "O", "D">>
    /\ pieChart.chartData[1].value = Rat(529, 100)
    /\ pieChart.chartData[2].name = <<"O", "T", "H", "E", "R">>
    /\ pieChart.chartData[2].value = Num(2)
    /\ Len(db.records) = 3

\* a rate that is a number other than 0, NaN and the infinities
IsFiniteRate(x) == x.d /= 0 /\ x.n /= 0

\* C18: convertAmount(amount, from, to) returns amount unchanged when from
\* and to are the same currency, and otherwise amount / rate(from) *
\* rate(to) with the rates in use, for every pair of supported currencies;
\* with finite rates that is the amount for which value * rate(from) =
\* amount * rate(to).
C18_ConvertAmountGoesThroughUSD ==
    [][ca' /= ca =>
          LET amount == ca'.amount
              rateFrom == RateOf(exchangeRates, ca'.fromCurrency)
              rateTo == RateOf(exchangeRates, ca'.toCurrency)
          IN  IF ca'.fromCurrency = ca'.toCurrency
              THEN ca'.value = amount
              ELSE /\ ca'.value = NumMul(NumDiv(amount, rateFrom), rateTo)
                   /\ IsFiniteRate(rateFrom) /\ IsFiniteRate(rateTo) =>
                         NumMul(ca'.value, rateFrom) = NumMul(amount, rateTo)
    ]_<<vars, ca>>

\* 7 ILS were converted to GBP with fetched rates (ILS 4, GBP 0.5): 0.875
C18_Witness ==
    /\ ca.pc = "returned"
    /\ ca.amount = Num(7)
    /\ ca.fromCurrency = ILS
    /\ ca.toCurrency = GBP
    /\ exchangeRates[ILS] = JNum(Num(4))
    /\ exchangeRates[GBP] = JNum(Rat(1, 2))
    /\ ca.value = Rat(7, 8)

\* C19: the report convertCurrency(report, target) resolves to mirrors its
\* input: it has the same number of costs in the same order, each with the
\* category, description and Date of the input cost; it keeps year and
\* month; the currency of every cost and total.currency are the target;
\* total.total is calculated again from the converted costs; and the input
\* report is the same after the call as before.
C19_ConvertedReportMirrorsItsInput ==
    /\ [](cc.pc = "resolved" =>
            LET report == cc.report
                value == cc.value
            IN  /\ DOMAIN value = DOMAIN report
                /\ value.year = report.year
                /\ value.month = report.month
                /\ Len(value.costs) = Len(report.costs)
                /\ \A k \in DOMAIN report.costs :
                      /\ DOMAIN value.costs[k] = DOMAIN report.costs[k]
                      /\ value.costs[k].category = report.costs[k].category
                      /\ value.costs[k].description = report.costs[k].description
                      /\ value.costs[k].Date = report.costs[k].Date
                      /\ value.costs[k].currency = cc.targetCurrency
                /\ value.total.currency = cc.targetCurrency
                /\ value.total.total = SumOfSums(value.costs))
    /\ [][cc.pc = "fetching" /\ cc'.pc = "resolved" => cc'.report = cc.report]_vars

\* a report of three costs in USD, EURO and ILS with a total of 1 was
\* converted to GBP: the total of the result is another, and its costs are
\* in GBP
C19_Witness ==
    /\ cc.pc = "resolved"
    /\ Len(cc.report.costs) = 3
    /\ cc.targetCurrency = GBP
    /\ cc.report.total.total = Num(1)
    /\ cc.value.total.total /= Num(1)
    /\ cc.report.costs[3].currency = ILS
    /\ cc.value.costs[3].currency = GBP

\* a handler waits at an await of getReport, convertCurrency or
\* fetchExchangeRates, each of which fetches the rates
RateFetchInFlight == \E i \in DOMAIN threads : threads[i].kind /= "addCost"

\* C20: whenever no rate fetch is in flight, the rates listed on the
\* Settings screen are the rates in use (getExchangeRates()), also when a
\* fetch that a report or chart generation started has completed after the
\* Settings screen was opened.
C20_SettingsListsTheRatesInUse ==
    settings /= Unmounted /\ ~RateFetchInFlight =>
        settings.ratesSnapshot = exchangeRates

\* the step is a click on Save Settings: a handler of it has started
SaveSettingsClicked ==
    /\ Len(threads') = Len(threads) + 1
    /\ threads'[Len(threads')].kind = "settingsSave"

\* the step settles the fetch that Save Settings of the rendered Settings
\* screen started
SaveSettingsFetchSettled ==
    \E i \in DOMAIN threads :
        /\ threads[i].kind = "settingsSave"
        /\ threads[i].mounted
        /\ threads' = Without(threads, i)

\* C21: after a click on Save Settings getExchangeUrl() returns the text of
\* the input, a fetch of the rates against that URL has been started and the
\* notification 'Settings saved successfully!' is shown, whether or not
\* localStorage could be written; when the fetch settles, whatever its
\* outcome, the notification stays and the rates snapshot is set to the
\* rates the fetch returned, which are the rates in use after it.
C21_SaveSettingsSavesAndRefreshes ==
    [][/\ SaveSettingsClicked =>
             /\ exchangeUrl' = settings.exchangeUrl
             /\ threads'[Len(threads')].arg.url = settings.exchangeUrl
             /\ threads'[Len(threads')].pc = "fetchExchangeRates"
             /\ settings'.snackbar =
                   [open |-> TRUE, message |-> <<"Settings saved successfully!">>,
                    severity |-> "success"]
             /\ localStorage' \in
                   {localStorage,
                    [k \in DOMAIN localStorage \cup {"exchangeUrl"} |->
                        IF k = "exchangeUrl" THEN settings.exchangeUrl
                        ELSE localStorage[k]]}
       /\ SaveSettingsFetchSettled =>
             /\ settings'.ratesSnapshot = exchangeRates'
             /\ settings'.snackbar = settings.snackbar
             /\ exchangeUrl' = exchangeUrl
    ]_<<vars, ca, appVars>>

\* the typed URL was saved while localStorage could not be written, and the
\* fetch that followed has settled with new rates: the notification is
\* shown and the snapshot lists the new rates
C21_Witness ==
    /\ settings /= Unmounted
    /\ threads = <<>>
    /\ exchangeUrl = "https://rates.example/latest"
    /\ localStorage = <<>>
    /\ settings.snackbar.open
    /\ settings.snackbar.message = <<"Settings saved successfully!">>
    /\ settings.ratesSnapshot = exchangeRates
    /\ exchangeRates[ILS] = JNum(Num(4))

\* the step is taken by a Test Connection handler of the rendered Settings
\* screen: its start, or one of its awaits settling
TestConnectionStarted ==
    /\ Len(threads') = Len(threads) + 1
    /\ threads'[Len(threads')].kind = "settingsTest"

TestConnectionEnded(i) ==
    /\ threads[i].kind = "settingsTest"
    /\ threads[i].mounted
    /\ threads' = Without(threads, i)

\* the configuration is what it was
ConfigurationKept ==
    /\ exchangeUrl' = exchangeUrl
    /\ localStorage' = localStorage
    /\ exchangeRates' = exchangeRates

\* C22: Test Connection fetches the URL in the input, whatever URL is saved,
\* and no step of it changes the configured URL, the localStorage entry or
\* the rates in use; it ends with the success notification exactly when the
\* response is OK and its JSON body is an object other than null, and with
\* an error notification otherwise.
C22_TestConnectionProbesTheTypedUrlOnly ==
    [][/\ TestConnectionStarted =>
             /\ threads'[Len(threads')].arg.url = settings.exchangeUrl
             /\ threads'[Len(threads')].pc = "fetch"
             /\ settings' = settings
             /\ ConfigurationKept
       /\ \A i \in DOMAIN threads :
             threads[i].kind = "settingsTest" /\ threads[i].mounted
               /\ currentTab' = currentTab /\ Len(threads') = Len(threads)
               /\ threads'[i] /= threads[i] =>
                 /\ threads[i].pc = "fetch"
                 /\ threads'[i].pc = "json"
                 /\ threads'[i].arg.url = threads[i].arg.url
                 /\ threads'[i].arg.response.kind \in {"ok", "bad_body"}
                 /\ settings' = settings
                 /\ ConfigurationKept
       /\ \A i \in DOMAIN threads :
             TestConnectionEnded(i) =>
                 /\ ConfigurationKept
                 /\ settings'.exchangeUrl = settings.exchangeUrl
                 /\ settings'.ratesSnapshot = settings.ratesSnapshot
                 /\ settings'.snackbar.open
                 /\ settings'.snackbar.severity \in {"success", "error"}
                 /\ settings'.snackbar.severity = "success" <=>
                       /\ threads[i].pc = "json"
                       /\ threads[i].arg.response.kind = "ok"
                       /\ threads[i].arg.response.data.t = "object"
                 /\ settings'.snackbar.message[1] =
                       IF settings'.snackbar.severity = "success"
                       THEN "Connection test successful!"
                       ELSE "Connection test failed: "
    ]_<<vars, ca, appVars>>

\* a typed URL that is not the saved one was tested and answered with a JSON
\* object: the test succeeded, and the saved URL, localStorage and the rates
\* are those of the start
C22_Witness ==
    /\ settings /= Unmounted
    /\ threads = <<>>
    /\ settings.exchangeUrl = "https://rates.example/latest"
    /\ exchangeUrl = DEFAULT_EXCHANGE_URL
    /\ localStorage = <<>>
    /\ settings.snackbar.open
    /\ settings.snackbar.message = <<"Connection test successful!">>
    /\ settings.ratesSnapshot = DefaultRates
    /\ exchangeRates = DefaultRates

====
